---- MODULE Spec2Model ----
(***************************************************************************)
(* BudgetOS (src/BudgetOS_MVP_v3/app.py): the SQLite ledger, the month     *)
(* locks, the preference map and the page handlers that write to them.     *)
(*                                                                         *)
(* Representation                                                          *)
(*   txn_date / posted_date  ISO text "YYYY-MM-DD" is the tuple <<y,m,d>>;  *)
(*                           Python None / SQL NULL is NoDate (<<>>).      *)
(*   month ('01'..'12')      the integer 1..12.                            *)
(*   amount (REAL)           an integer number of mills (1/1000).          *)
(*   description             a sequence of one-character strings.          *)
(*   category/notes/account  a string; Python None / SQL NULL is NULL.     *)
(*   a DataFrame             a sequence of records, in row order.          *)
(*   the ledger table        a sequence of rows in id order (rows are      *)
(*                           never deleted, so id = position).             *)
(***************************************************************************)
EXTENDS Integers, Sequences, FiniteSets, TLC

VARIABLES
    ledger,          \* table ledger
    locked_months,   \* table locked_months: a set of <<year, month>>
    app_state,       \* table app_state: key -> [present, value]
    prefs_file,      \* config/preferences.json as load_json_file reads it
    expense_cats,    \* load_expense_categories()
    income_cats,     \* load_income_categories()
    goals,           \* table goals: (year, category) -> monthly_goal
    year,            \* the Year selectbox
    sessions         \* the imports of two browser sessions: each one's insert_rows

vars == <<ledger, locked_months, app_state, prefs_file, expense_cats,
          income_cats, goals, year, sessions>>

(***************************************************************************)
(* Bounds of the model.                                                    *)
(***************************************************************************)
MaxRows == 2        \* ledger rows
MaxBatch == 2       \* records of one batch given to make_external_ids
MaxStore == 3       \* ledger rows when batches are inserted directly
MaxSheet == 3       \* ledger rows when the forms fill the sheet

(***************************************************************************)
(* Values.                                                                 *)
(***************************************************************************)
NULL == "<NULL>"
NoDate == <<>>
CurrentYear == 2024         \* datetime.now().year

YearOf(d) == d[1]
month_of(txn_date_iso) == txn_date_iso[2]

\* ISO text compares lexicographically, which is chronological order.
DateLess(a, b) ==
    \/ a[1] < b[1]
    \/ a[1] = b[1] /\ a[2] < b[2]
    \/ a[1] = b[1] /\ a[2] = b[2] /\ a[3] < b[3]

Abs(n) == IF n < 0 THEN -n ELSE n

SeqToSet(s) == {s[i] : i \in 1..Len(s)}

RECURSIVE SelectSeq2(_, _, _)
\* the rows of df, in order, whose index satisfies keep
SelectSeq2(df, keep, i) ==
    IF i > Len(df) THEN <<>>
    ELSE (IF i \in keep THEN <<df[i]>> ELSE <<>>) \o SelectSeq2(df, keep, i + 1)

(***************************************************************************)
(* Preference maps: a JSON object description -> category is a function.   *)
(***************************************************************************)
EmptyMap == [d \in {} |-> NULL]

MapGet(p, k) == IF k \in DOMAIN p THEN p[k] ELSE NULL

MapPut(p, k, v) == [d \in DOMAIN p \cup {k} |-> IF d = k THEN v ELSE p[d]]

(***************************************************************************)
(* Storage.                                                                *)
(***************************************************************************)
\* A JSON text is [json, value]: "object" with the dict it denotes, "array",
\* or "invalid" for text that does not parse.
json_dumps(obj) == [json |-> "object", value |-> obj]

\* [ok, value]: ok = FALSE is the exception
json_loads(text) == [ok |-> text.json # "invalid", value |-> text.value]

InvalidText == [json |-> "invalid", value |-> EmptyMap]

\* no row: [present |-> FALSE]
get_state(st, key) == st[key]

set_state(st, key, value) == [st EXCEPT ![key] = [present |-> TRUE, value |-> value]]

\* a file is [exists, text]
NoFile == [exists |-> FALSE, text |-> InvalidText]

load_json_file(file, default) ==
    IF file.exists /\ json_loads(file.text).ok THEN json_loads(file.text).value
    ELSE default

\* write_text either completes, fails before the file is opened, or fails
\* after the file was truncated
WriteOutcomes == {"ok", "failed", "truncated"}

save_json_file(file, obj, write) ==
    CASE write = "ok" -> [exists |-> TRUE, text |-> json_dumps(obj)]
      [] write = "failed" -> file
      [] OTHER -> [exists |-> TRUE, text |-> InvalidText]

\* a test of the parsed dict in place of the text: an empty map is falsy
RawTruthyParsed(raw) == raw.present /\ raw.value.value # EmptyMap

\* if raw: None is falsy, and so is "" (which json.dumps never writes)
RawTruthy(raw) == raw.present

\* if raw: json.loads(raw)   else   load_json_file(PREFS_PATH, {})
load_prefs_from(st, file) ==
    LET raw == get_state(st, "prefs_json")
    IN  IF RawTruthy(raw) /\ json_loads(raw.value).ok THEN json_loads(raw.value).value
        ELSE load_json_file(file, EmptyMap)

load_prefs == load_prefs_from(app_state, prefs_file)

\* SELECT month FROM locked_months WHERE year=?   (tbl is the table)
get_locked_months(tbl, y) == {ym[2] : ym \in {x \in tbl : x[1] = y}}

\* the INSERTs without the DELETE (INSERT OR IGNORE)
add_locked_months(tbl, y, months) == tbl \cup {<<y, m>> : m \in months}

\* DELETE FROM locked_months WHERE year=?, then one INSERT per month
save_locked_months(tbl, y, months) ==
    {x \in tbl : x[1] # y} \cup {<<y, m>> : m \in months}

(***************************************************************************)
(* Parsing helpers.  A statement cell is [fmt, v]: the text's shape and    *)
(* the value the text denotes.                                             *)
(***************************************************************************)
StrptimeFormats == {"%m/%d/%Y", "%m/%d/%y", "%Y-%m-%d"}

parse_date(val) ==
    IF val.fmt = "nan" THEN NoDate
    ELSE IF val.fmt \in StrptimeFormats THEN val.v
    ELSE IF val.fmt = "to_datetime" THEN val.v
    ELSE NoDate

\* [ok, v]: ok = FALSE is None
parse_amount(val) ==
    IF val.fmt = "nan" THEN [ok |-> FALSE, v |-> 0]
    ELSE IF val.fmt = "number" THEN [ok |-> TRUE, v |-> val.v]
    ELSE IF val.fmt = "paren" THEN [ok |-> TRUE, v |-> -val.v]
    ELSE IF val.fmt = "text" THEN [ok |-> TRUE, v |-> val.v]
    ELSE [ok |-> FALSE, v |-> 0]

(***************************************************************************)
(* Identity.                                                               *)
(***************************************************************************)
\* f"{amount:.2f}": the sign and the cents, rounded half to even.
Fmt2(amount) ==
    LET a == Abs(amount)
        q == a \div 10
        r == a % 10
        cents == IF r > 5 \/ (r = 5 /\ q % 2 = 1) THEN q + 1 ELSE q
    IN  <<amount < 0, cents>>

\* str(x) of a nullable string
Str(x) == IF x = NULL THEN "None" ELSE x

\* a signature that also reads the category
SignatureWithCategory(r) ==
    <<r.txn_date, r.posted_date, Fmt2(r.amount), r.description, Str(r.account), r.kind,
      r.category>>

Signature(r) ==
    <<r.txn_date, r.posted_date, Fmt2(r.amount), r.description, Str(r.account), r.kind>>

\* sha256(signature)[:16]: the digest is the signature under a tag (distinct
\* signatures have distinct digests).
base_hash(signature) == <<"sha256", signature>>

\* identifiers without the per-group counter
NoCount(df, i) == 1

\* groupby("_h").cumcount() + 1
CumCount(df, i) ==
    Cardinality({j \in 1..(i - 1) : base_hash(Signature(df[j])) = base_hash(Signature(df[i]))}) + 1

ExternalId(df, i) == <<base_hash(Signature(df[i])), CumCount(df, i)>>

make_external_ids(df) == [i \in 1..Len(df) |-> ExternalId(df, i)]

WithExternalIds(df) ==
    [i \in 1..Len(df) |->
        [txn_date |-> df[i].txn_date, posted_date |-> df[i].posted_date,
         description |-> df[i].description, amount |-> df[i].amount,
         kind |-> df[i].kind, account |-> df[i].account,
         category |-> df[i].category, excluded |-> df[i].excluded,
         notes |-> df[i].notes, external_id |-> make_external_ids(df)[i]]]

(***************************************************************************)
(* Ledger writes.                                                          *)
(***************************************************************************)
\* a ledger without the unique index: every INSERT passes
UniqueOff(L, r) == TRUE

\* CREATE UNIQUE INDEX idx_ledger_external_id ON ledger(external_id)
UniqueOK(L, r) == \A j \in 1..Len(L) : L[j].external_id # r.external_id

\* the NOT NULL columns the INSERT supplies
NotNullOK(r) == r.txn_date # NoDate

NewRow(r, id, now) ==
    [id |-> id, external_id |-> r.external_id, txn_date |-> r.txn_date,
     posted_date |-> r.posted_date, description |-> r.description,
     amount |-> r.amount, kind |-> r.kind, account |-> r.account,
     category |-> r.category, excluded |-> r.excluded, notes |-> r.notes,
     created_at |-> now]

\* except sqlite3.IntegrityError: skipped += 1, with the count left out
Swallowed(acc) == acc

\* except sqlite3.IntegrityError: skipped += 1
OnIntegrityError(acc) == [acc EXCEPT !.skipped = @ + 1]

\* the INSERT succeeded: inserted += 1
Inserted(acc, r, now) ==
    [ledger |-> Append(acc.ledger, NewRow(r, Len(acc.ledger) + 1, now)),
     inserted |-> acc.inserted + 1,
     skipped |-> acc.skipped]

RECURSIVE insert_loop(_, _, _, _)
insert_loop(df, i, now, acc) ==
    IF i > Len(df) THEN acc
    ELSE LET r == df[i]
         IN  insert_loop(df, i + 1, now,
                IF UniqueOK(acc.ledger, r) /\ NotNullOK(r)
                THEN Inserted(acc, r, now)
                ELSE OnIntegrityError(acc))

\* [ledger, inserted, skipped]
insert_rows(L, df, now) ==
    insert_loop(df, 1, now, [ledger |-> L, inserted |-> 0, skipped |-> 0])

(***************************************************************************)
(* Text.  Only the characters the model's descriptions use are tabled.     *)
(***************************************************************************)
IsSpace(ch) == ch = " "

IsDigit(ch) == ch \in {"0", "1", "2", "3", "4", "5", "6", "7", "8", "9"}

Upper(ch) ==
    CASE ch = "a" -> "A"
      [] ch = "b" -> "B"
      [] ch = "n" -> "N"
      [] OTHER -> ch

RECURSIVE LStrip(_)
LStrip(s) == IF s # <<>> /\ IsSpace(Head(s)) THEN LStrip(Tail(s)) ELSE s

RECURSIVE RStrip(_)
RStrip(s) ==
    IF s # <<>> /\ IsSpace(s[Len(s)]) THEN RStrip(SubSeq(s, 1, Len(s) - 1)) ELSE s

\* str.strip()
Strip(s) == RStrip(LStrip(s))

\* str(cell) of a description cell: a missing cell (NaN) prints as "nan"
StrCell(cell) == IF cell.nan THEN <<"n", "a", "n">> ELSE cell.text

\* "payment" in str(type).strip().lower()
HasPayment(t) == t \in {"Payment", "PAYMENT"}

\* "adjustment" in str(type).strip().lower()
HasAdjustment(t) == t \in {"Adjustment"}

(***************************************************************************)
(* Import Chase CSV.  A file is [name, cols, rows]: cols are the columns   *)
(* pick_col finds, rows the cells of each line.                            *)
(***************************************************************************)
\* a test that leaves out the Amount column
HasDateAndDescription(file) ==
    {"Transaction Date", "Description"} \subseteq file.cols

\* if not (c_txn and c_desc and c_amt): raise ValueError
HasRequiredColumns(file) ==
    {"Transaction Date", "Description", "Amount"} \subseteq file.cols

ParseRow(file, r, account_name, route_statement_credits_to_income) ==
    LET txn_date == parse_date(r.txn)
        posted == IF "Post Date" \in file.cols THEN parse_date(r.post) ELSE NoDate
        desc == Strip(StrCell(r.desc))
        amt == parse_amount(r.amt)
        t == IF "Type" \in file.cols THEN r.type ELSE ""
        payment == HasPayment(t)
        credit == ~payment /\ route_statement_credits_to_income
                  /\ HasAdjustment(t) /\ amt.ok /\ amt.v > 0
    IN  [keep |-> txn_date # NoDate /\ amt.ok /\ desc # <<>>,
         row |-> [txn_date |-> txn_date,
                  posted_date |-> posted,
                  description |-> desc,
                  amount |-> amt.v,
                  kind |-> IF credit THEN "income" ELSE "expense",
                  account |-> account_name,
                  category |-> IF credit THEN "Credit Card Redemptions/Interest" ELSE NULL,
                  excluded |-> IF payment THEN 1 ELSE 0,
                  notes |-> NULL]]

RECURSIVE ParseRows(_, _, _, _)
ParseRows(file, i, account_name, route) ==
    IF i > Len(file.rows) THEN <<>>
    ELSE LET p == ParseRow(file, file.rows[i], account_name, route)
         IN  (IF p.keep THEN <<p.row>> ELSE <<>>) \o ParseRows(file, i + 1, account_name, route)

\* the DataFrame returned; the caller checks HasRequiredColumns (the raise)
import_chase_csv(file, account_name, route) ==
    LET out == ParseRows(file, 1, account_name, route)
    IN  IF out = <<>> THEN out ELSE WithExternalIds(out)

(***************************************************************************)
(* The statements, dates and form values the handlers are given.           *)
(***************************************************************************)
AllCols == {"Transaction Date", "Post Date", "Description", "Amount", "Type"}

Jan23 == <<2023, 1, 5>>
Jan24 == <<2024, 1, 5>>
Feb24 == <<2024, 2, 10>>

DescA == <<"A">>
DescB == <<"B">>
\* a variant of DescA: other case, a doubled space and a digit
DescVar == <<"a", " ", " ", "1">>

Cell(txn, post, desc, amt, type) ==
    [txn |-> txn, post |-> post, desc |-> [nan |-> FALSE, text |-> desc],
     amt |-> amt, type |-> type]

MDY(d) == [fmt |-> "%m/%d/%Y", v |-> d]
Num(v) == [fmt |-> "number", v |-> v]

\* two identical purchases in one statement
StmtDup ==
    [name |-> "dup", cols |-> AllCols,
     rows |-> << Cell(MDY(Jan24), MDY(Jan24), DescA, Num(-50000), "Sale"),
                 Cell(MDY(Jan24), MDY(Jan24), DescA, Num(-50000), "Sale") >>]

\* a statement that spans two years, newest line first, with a line whose
\* date does not parse
StmtTwoYears ==
    [name |-> "two-years", cols |-> AllCols,
     rows |-> << Cell(MDY(Feb24), MDY(Feb24), DescB, [fmt |-> "paren", v |-> 1000000], "Sale"),
                 Cell([fmt |-> "garbage", v |-> NoDate], MDY(Feb24), DescB, Num(-1000), "Sale"),
                 Cell(MDY(Jan23), MDY(Jan23), DescA, Num(-50000), "Sale") >>]

\* no Amount column
StmtNoAmount ==
    [name |-> "no-amount", cols |-> AllCols \ {"Amount"},
     rows |-> << Cell(MDY(Jan24), MDY(Jan24), DescA, Num(-50000), "Sale") >>]

\* a purchase and a second one whose description is a variant of the first
StmtVariants ==
    [name |-> "variants", cols |-> AllCols,
     rows |-> << Cell(MDY(Jan24), MDY(Jan24), DescA, Num(-50000), "Sale"),
                 Cell(MDY(Jan24), MDY(Jan24), DescVar, Num(-50000), "Sale") >>]

\* a statement credit, under a description that purchases also use
StmtCredit ==
    [name |-> "credit", cols |-> AllCols,
     rows |-> << Cell(MDY(Jan24), MDY(Jan24), DescA, Num(20000), "Adjustment") >>]

\* a purchase in January and one in February
StmtTwoMonths ==
    [name |-> "two-months", cols |-> AllCols,
     rows |-> << Cell(MDY(Jan24), MDY(Jan24), DescA, Num(-50000), "Sale"),
                 Cell(MDY(Feb24), MDY(Feb24), DescB, Num(-1000000), "Sale") >>]

Statements == {StmtDup, StmtTwoYears, StmtNoAmount, StmtVariants, StmtCredit}

Times == {"t1"}

(***************************************************************************)
(* The page scaffold: the Year selectbox after a rerun.                    *)
(***************************************************************************)
LedgerYears(L) == {YearOf(L[i].txn_date) : i \in 1..Len(L)}

YearOptions(L) == IF LedgerYears(L) = {} THEN {CurrentYear} ELSE LedgerYears(L)

MaxOf(S) == CHOOSE x \in S : \A y \in S : y <= x

\* the selection is kept while it is an option; index=0 is the latest year
Rerun(y, L) == IF y \in YearOptions(L) THEN y ELSE MaxOf(YearOptions(L))

HasYearData(L, y) == \E i \in 1..Len(L) : YearOf(L[i].txn_date) = y

YM(d) == <<YearOf(d), month_of(d)>>

(***************************************************************************)
(* normalize_description.                                                  *)
(***************************************************************************)
RECURSIVE Squeeze(_)
Squeeze(t) ==
    IF Len(t) < 2 THEN t
    ELSE IF IsSpace(t[1]) /\ IsSpace(t[2]) THEN Squeeze(Tail(t))
         ELSE <<t[1]>> \o Squeeze(Tail(t))

\* " ".join(s.split())
JoinSplit(s) == Squeeze(Strip(s))

RECURSIVE DropDigits(_)
DropDigits(s) ==
    IF s = <<>> THEN s
    ELSE (IF IsDigit(Head(s)) THEN <<>> ELSE <<Head(s)>>) \o DropDigits(Tail(s))

normalize_description(desc) ==
    IF desc = <<>> THEN <<>>
    ELSE JoinSplit(DropDigits(JoinSplit([i \in 1..Len(desc) |-> Upper(desc[i])])))

(***************************************************************************)
(* Reads and updates of the ledger.                                        *)
(***************************************************************************)
\* ORDER BY id ASC alone
RowBeforeById(a, b) == a.id <= b.id

RowBefore(a, b) ==
    \/ DateLess(a.txn_date, b.txn_date)
    \/ a.txn_date = b.txn_date /\ a.id <= b.id

RECURSIVE SortRows(_)
\* ORDER BY txn_date ASC, id ASC
SortRows(S) ==
    IF S = {} THEN <<>>
    ELSE LET m == CHOOSE r \in S : \A o \in S : RowBefore(r, o)
         IN  <<m>> \o SortRows(S \ {m})

\* WHERE substr(txn_date,1,4)=?
fetch_year(L, y) == SortRows({L[i] : i \in {j \in 1..Len(L) : YearOf(L[j].txn_date) = y}})

IsEmptyCategory(c) == c = NULL \/ c = ""

\* UPDATE ledger SET category=? WHERE id=?
SetCategoryById(L, id, category) ==
    [i \in 1..Len(L) |-> IF L[i].id = id THEN [L[i] EXCEPT !.category = category] ELSE L[i]]

\* a WHERE clause that compares the normalized descriptions
MatchesNormalized(r, description, y) ==
    /\ normalize_description(r.description) = normalize_description(description)
    /\ r.kind = "expense"
    /\ IsEmptyCategory(r.category)
    /\ YearOf(r.txn_date) = y

\* the WHERE clause of update_category_for_description
MatchesDescription(r, description, y) ==
    /\ r.description = description
    /\ r.kind = "expense"
    /\ IsEmptyCategory(r.category)
    /\ YearOf(r.txn_date) = y

\* the SELECT: id and txn_date, in table order
SelectForDescription(L, description, y) ==
    SelectSeq2([i \in 1..Len(L) |-> [id |-> L[i].id, txn_date |-> L[i].txn_date]],
               {i \in 1..Len(L) : MatchesDescription(L[i], description, y)}, 1)

\* the loop without the lock test
NeverSkip(txn_date, locked) == FALSE

\* if m in locked_months: continue
SkipLocked(txn_date, locked) == month_of(txn_date) \in locked

RECURSIVE ucd_loop(_, _, _, _, _)
ucd_loop(L, rows, k, category, locked) ==
    IF k > Len(rows) THEN L
    ELSE IF SkipLocked(rows[k].txn_date, locked)
         THEN ucd_loop(L, rows, k + 1, category, locked)
         ELSE ucd_loop(SetCategoryById(L, rows[k].id, category), rows, k + 1, category, locked)

update_category_for_description(L, description, category, y, locked) ==
    ucd_loop(L, SelectForDescription(L, description, y), 1, category, locked)

allowed ==
    {"txn_date", "description", "amount", "account", "category", "excluded",
     "notes", "posted_date", "kind"}

\* DELETE FROM ledger WHERE id=? in place of the UPDATE
delete_txn_by_id(L, txn_id, updates) ==
    SelectSeq2(L, {i \in 1..Len(L) : L[i].id # txn_id}, 1)

\* the loop without "if k not in allowed: continue"
update_any_column(L, txn_id, updates) ==
    [i \in 1..Len(L) |->
        IF L[i].id = txn_id
        THEN [f \in DOMAIN L[i] |-> IF f \in DOMAIN updates THEN updates[f] ELSE L[i][f]]
        ELSE L[i]]

\* updates is a dict: a function from column names to values
update_txn_by_id(L, txn_id, updates) ==
    LET cols == DOMAIN updates \cap allowed
    IN  IF cols = {} THEN L
        ELSE [i \in 1..Len(L) |->
                IF L[i].id = txn_id
                THEN [f \in DOMAIN L[i] |-> IF f \in cols THEN updates[f] ELSE L[i][f]]
                ELSE L[i]]

(***************************************************************************)
(* Import page: Import CSV.  What the handler does to the ledger and what  *)
(* it reports, as a function of what it reads.                             *)
(***************************************************************************)
\* a lookup under the normalized description
ApplyNormalizedMapping(df, prefs) ==
    [i \in 1..Len(df) |->
        IF df[i].kind = "expense"
        THEN [df[i] EXCEPT !.category = MapGet(prefs, normalize_description(df[i].description))]
        ELSE df[i]]

\* df_new.loc[mask, "category"] = df_new.loc[mask, "description"].map(prefs)
ApplyMapping(df, prefs) ==
    [i \in 1..Len(df) |->
        IF df[i].kind = "expense"
        THEN [df[i] EXCEPT !.category = MapGet(prefs, df[i].description)]
        ELSE df[i]]

\* df_new[~df_new["m"].isin(locked)]
LockFilter(df, locked) ==
    SelectSeq2(df, {i \in 1..Len(df) : month_of(df[i].txn_date) \notin locked}, 1)

ImportPage(L, locked, prefs, file, account_name, route_credits, allow_locked, now) ==
    LET df_new == IF HasRequiredColumns(file)
                  THEN import_chase_csv(file, account_name, route_credits)
                  ELSE <<>>
        kept == IF allow_locked THEN df_new ELSE LockFilter(df_new, locked)
        given == ApplyMapping(kept, prefs)
        res == IF df_new = <<>> THEN [ledger |-> L, inserted |-> 0, skipped |-> 0]
               ELSE insert_rows(L, given, now)
    IN  [error |-> ~HasRequiredColumns(file),
         df_new |-> df_new,
         skipped_locked |-> Len(df_new) - Len(kept),
         given |-> given,
         inserted |-> res.inserted,
         skipped |-> res.skipped,
         ledger |-> res.ledger]

(***************************************************************************)
(* Import page: the rows that need a category.                             *)
(***************************************************************************)
NeedsCategory(r) == r.kind = "expense" /\ r.excluded = 0 /\ IsEmptyCategory(r.category)

Needs(L, y) == SelectSeq(fetch_year(L, y), NeedsCategory)

NeedsDescriptions(L, y) == {r.description : r \in SeqToSet(Needs(L, y))}

RECURSIVE ApplyToDescriptions(_, _, _, _, _)
\* update_category_for_description for each description of D
ApplyToDescriptions(L, D, category, y, locked) ==
    IF D = {} THEN L
    ELSE LET d == CHOOSE x \in D : TRUE
         IN  ApplyToDescriptions(update_category_for_description(L, d, category, y, locked),
                                 D \ {d}, category, y, locked)

RECURSIVE PutAll(_, _, _)
PutAll(p, D, v) ==
    IF D = {} THEN p
    ELSE LET d == CHOOSE x \in D : TRUE IN PutAll(MapPut(p, d, v), D \ {d}, v)

(***************************************************************************)
(* Categorize wizard (categorize_dialog).                                  *)
(***************************************************************************)
\* the dialog shows the Save & Next button: there is a row and its month is open
WizardOpen(L, locked, y) ==
    Needs(L, y) # <<>> /\ month_of(Needs(L, y)[1].txn_date) \notin locked

\* Save & Next: [error, ledger, prefs, save]
WizardSaveNext(L, locked, prefs, y, w_cat, apply_to_prefs, apply_similar) ==
    LET needs_local == Needs(L, y)
        row == needs_local[1]
        desc == row.description
        L1 == update_txn_by_id(L, row.id, [c \in {"category"} |-> w_cat])
        L2 == update_category_for_description(L1, desc, w_cat, y, locked)
        similar == IF apply_similar
                   THEN {d \in NeedsDescriptions(L, y) :
                           d # desc /\ normalize_description(d) = normalize_description(desc)}
                   ELSE {}
        L3 == ApplyToDescriptions(L2, similar, w_cat, y, locked)
    IN  IF w_cat = ""
        THEN [error |-> TRUE, ledger |-> L, prefs |-> prefs, save |-> FALSE]
        ELSE [error |-> FALSE, ledger |-> L3,
              prefs |-> IF apply_to_prefs THEN PutAll(prefs, {desc} \cup similar, w_cat)
                        ELSE prefs,
              save |-> apply_to_prefs]

(***************************************************************************)
(* Bulk map: Save mappings.  edited is the category column of the table,   *)
(* a function from the descriptions that need a category.                  *)
(***************************************************************************)
RECURSIVE BulkLoop(_, _, _, _, _)
\* acc = [ledger, prefs, updates]
BulkLoop(edited, D, locked, y, acc) ==
    IF D = {} THEN acc
    ELSE LET desc == CHOOSE x \in D : TRUE
             cat == edited[desc]
         IN  BulkLoop(edited, D \ {desc}, locked, y,
                IF cat = "" THEN acc
                ELSE [ledger |-> update_category_for_description(acc.ledger, desc, cat, y, locked),
                      prefs |-> MapPut(acc.prefs, desc, cat),
                      updates |-> IF MapGet(acc.prefs, desc) # cat
                                  THEN acc.updates + 1 ELSE acc.updates])

\* bulk["description"].map(prefs).fillna("")
Prefilled(prefs, D) == [d \in D |-> IF MapGet(prefs, d) = NULL THEN "" ELSE MapGet(prefs, d)]

\* [ledger, prefs, updates]
BulkSaveMappings(L, locked, prefs, y, edited) ==
    BulkLoop(edited, DOMAIN edited, locked, y, [ledger |-> L, prefs |-> prefs, updates |-> 0])

\* the table as shown, with at most one cell changed by the user
BulkEdits(L, prefs, y, opts) ==
    LET D == NeedsDescriptions(L, y)
        pre == Prefilled(prefs, D)
    IN  {pre} \cup {[pre EXCEPT ![d] = c] : d \in D, c \in opts}

(***************************************************************************)
(* Admin: Ledger, Save edits.  edited_ids are the rows the user changed in *)
(* the table, cv the column and its new value.                             *)
(***************************************************************************)
Blank(col, nv) == IF col \in {"category", "notes"} /\ nv = "" THEN NULL ELSE nv

\* the diff of one row: empty when nothing differs
RowDiff(row, col, val) ==
    IF row[col] = val THEN [c \in {} |-> val] ELSE [c \in {col} |-> Blank(col, val)]

\* the loop without the lock test
SkipNoRow(row) == FALSE

\* if bool(new.loc[txn_id, "locked"]): continue
SkipLockedRow(row) == row.locked

RECURSIVE AdminLoop(_, _, _, _, _)
\* acc = [ledger, changes]
AdminLoop(shown, k, edited_ids, cv, acc) ==
    IF k > Len(shown) THEN acc
    ELSE LET row == shown[k]
             diff == IF row.id \in edited_ids THEN RowDiff(row, cv[1], cv[2])
                     ELSE [c \in {} |-> cv[2]]
         IN  AdminLoop(shown, k + 1, edited_ids, cv,
                IF SkipLockedRow(row) \/ DOMAIN diff = {} THEN acc
                ELSE [ledger |-> update_txn_by_id(acc.ledger, row.id, diff),
                      changes |-> acc.changes + 1])

\* df_year with the "locked" column
AdminTable(L, y, locked) ==
    LET d == fetch_year(L, y)
    IN  [k \in 1..Len(d) |->
            [id |-> d[k].id, txn_date |-> d[k].txn_date, description |-> d[k].description,
             amount |-> d[k].amount, kind |-> d[k].kind, account |-> d[k].account,
             category |-> d[k].category, excluded |-> d[k].excluded, notes |-> d[k].notes,
             locked |-> month_of(d[k].txn_date) \in locked]]

\* [ledger, changes]
AdminSave(L, locked, y, edited_ids, cv) ==
    AdminLoop(AdminTable(L, y, locked), 1, edited_ids, cv, [ledger |-> L, changes |-> 0])

(***************************************************************************)
(* Manual forms and the quick-add dialog: [refused, given, inserted,       *)
(* skipped, ledger].                                                       *)
(***************************************************************************)
OrNone(s) == IF s = "" THEN NULL ELSE s

InsertOne(L, row, now) ==
    LET df_one == WithExternalIds(<<row>>)
        res == insert_rows(L, df_one, now)
    IN  [refused |-> "", given |-> df_one, inserted |-> res.inserted,
         skipped |-> res.skipped, ledger |-> res.ledger]

Refused(L, why) ==
    [refused |-> why, given |-> <<>>, inserted |-> 0, skipped |-> 0, ledger |-> L]

ManualExpenseForm(L, locked, m_date, m_desc, m_amt, m_acct, m_cat, m_excl, m_notes, now) ==
    IF m_desc = <<>> THEN Refused(L, "Description required.")
    ELSE IF month_of(m_date) \in locked THEN Refused(L, "That month is locked.")
    ELSE InsertOne(L,
            [txn_date |-> m_date, posted_date |-> NoDate,
             description |-> Strip(m_desc), amount |-> -Abs(m_amt),
             kind |-> "expense", account |-> m_acct, category |-> OrNone(m_cat),
             excluded |-> IF m_excl THEN 1 ELSE 0, notes |-> OrNone(m_notes)],
            now)

ManualIncomeForm(L, locked, i_date, i_desc, i_amt, i_acct, i_cat, i_notes, now) ==
    IF i_desc = <<>> THEN Refused(L, "Description required.")
    ELSE IF month_of(i_date) \in locked THEN Refused(L, "That month is locked.")
    ELSE InsertOne(L,
            [txn_date |-> i_date, posted_date |-> NoDate,
             description |-> Strip(i_desc), amount |-> Abs(i_amt),
             kind |-> "income", account |-> i_acct, category |-> OrNone(i_cat),
             excluded |-> 0, notes |-> OrNone(i_notes)],
            now)

\* add_expense_dialog; locked is get_locked_months(ctx year), d lies in the ctx month
QuickAddDialog(L, locked, month, category, d, amt, desc, acct, notes, now) ==
    IF month \in locked THEN Refused(L, "This month is locked")
    ELSE InsertOne(L,
            [txn_date |-> d, posted_date |-> NoDate,
             description |-> IF Strip(desc) = <<>> THEN <<"Manual - ", category>>
                             ELSE Strip(desc),
             amount |-> -Abs(amt), kind |-> "expense", account |-> acct,
             category |-> category, excluded |-> 0, notes |-> OrNone(notes)],
            now)

(***************************************************************************)
(* Summaries (sheet math).  A float is modelled as an integer number of    *)
(* mills that is kept to FloatBits significant bits: the result of every   *)
(* addition and subtraction is rounded to the nearest such number, ties to *)
(* even, as IEEE 754 does with 53 bits.  A quotient is kept as the exact   *)
(* fraction <<numerator, denominator>> in lowest terms.                    *)
(***************************************************************************)
FloatBits == 24     \* significant bits of a float

MONTH_COLS == [m \in 1..12 |-> m]

Pow2[n \in Nat] == IF n = 0 THEN 1 ELSE 2 * Pow2[n - 1]

BitLength[a \in Nat] == IF a = 0 THEN 0 ELSE 1 + BitLength[a \div 2]

\* the nearest number with FloatBits significant bits, ties to even
Round[x \in Int] ==
    LET a == Abs(x)
        e == BitLength[a] - FloatBits
    IN  IF e <= 0 THEN x
        ELSE LET q == Pow2[e]
                 m == a \div q
                 r == a % q
                 up == 2 * r > q \/ (2 * r = q /\ m % 2 = 1)
                 n == (IF up THEN m + 1 ELSE m) * q
             IN  IF x < 0 THEN -n ELSE n

FAdd(a, b) == Round[a + b]
FSub(a, b) == Round[a - b]

GCD[a \in Nat, b \in Nat] == IF b = 0 THEN a ELSE GCD[b, a % b]

\* a / b
TrueDiv(a, b) ==
    LET g == GCD[Abs(a), Abs(b)]
        s == IF b < 0 THEN -1 ELSE 1
    IN  <<s * (a \div g), s * (b \div g)>>

\* the amount itself, the sign kept
unsigned_spend(amount) == amount

signed_to_spend(amount) == -amount

RECURSIVE np_sum(_, _)
\* ndarray.sum over the first k values: they are added from left to right
np_sum(vals, k) ==
    IF k = 0 THEN 0 ELSE FAdd(np_sum(vals, k - 1), vals[k])

RECURSIVE kahan(_, _)
\* group_sum after the first k values of a group: [sumx, compensation]
kahan(vals, k) ==
    IF k = 0 THEN [sumx |-> 0, compensation |-> 0]
    ELSE LET acc == kahan(vals, k - 1)
             y == FSub(vals[k], acc.compensation)
             t == FAdd(acc.sumx, y)
         IN  [sumx |-> t, compensation |-> FSub(FSub(t, acc.sumx), y)]

\* aggfunc="sum" of one group: groupby adds the values in row order
group_sum(vals) == kahan(vals, Len(vals)).sumx

\* the "value" column of the rows of df with the given month
MonthValues(df, category, month) ==
    LET InGroup(r) == month_of(r.txn_date) = month
        g == SelectSeq(df, InGroup)
    IN  [i \in 1..Len(g) |-> g[i].value]

\* the "value" column of the rows of df with the given category and month
GroupValues(df, category, month) ==
    LET InGroup(r) == r.category = category /\ month_of(r.txn_date) = month
        g == SelectSeq(df, InGroup)
    IN  [i \in 1..Len(g) |-> g[i].value]

\* pivot_table(index="category", columns="month", aggfunc="sum",
\* fill_value=0.0), the twelve MONTH_COLS, reindex(cats).fillna(0.0):
\* one row of twelve cells for each entry of cats
pivot_table(df, cats) ==
    [i \in 1..Len(cats) |->
        [m \in 1..12 |-> group_sum(GroupValues(df, cats[i], MONTH_COLS[m]))]]

\* the first month in place of the sum of the row
FirstMonth(cells) == cells[1]

\* sum(axis=1) of one row of the pivot
RowSum(cells) == np_sum(cells, 12)

\* sum(axis=0) of the column of month m
ColSum(pivot, m) == np_sum([i \in 1..Len(pivot) |-> pivot[i][m]], Len(pivot))

\* a row of a table with its four summary columns
SummaryRow(label, months, avg_month, ytd) ==
    [label |-> label, months |-> months, avg_month |-> avg_month, ytd |-> ytd,
     avg_week |-> TrueDiv(ytd, 52), avg_day |-> TrueDiv(ytd, 364)]

\* the category rows without reindex(cats): the categories the data has
PresentRows(pivot, cats) ==
    LET HasData(i) == \E m \in 1..12 : pivot[i][m] # 0
        rows == [i \in 1..Len(cats) |->
                    SummaryRow(cats[i], pivot[i], TrueDiv(RowSum(pivot[i]), 12),
                               RowSum(pivot[i]))]
    IN  SelectSeq2(rows, {i \in 1..Len(cats) : HasData(i)}, 1)

\* the category rows of a table
CategoryRows(pivot, cats) ==
    [i \in 1..Len(cats) |->
        SummaryRow(cats[i], pivot[i], TrueDiv(RowSum(pivot[i]), 12), RowSum(pivot[i]))]

\* exp_pivot["YTD Totals"].sum()
YtdTotal(pivot) == np_sum([i \in 1..Len(pivot) |-> RowSum(pivot[i])], Len(pivot))

\* the row "Total Spent" / "Total Net Income"
TotalRow(label, pivot) ==
    SummaryRow(label, [m \in 1..12 |-> ColSum(pivot, m)],
               TrueDiv(YtdTotal(pivot), 12), YtdTotal(pivot))

\* sav / inc when inc > 0, and 0.0 otherwise
RateIfPositive(sav, inc) == IF inc > 0 THEN TrueDiv(sav, inc) ELSE TrueDiv(0, 1)

\* (sav / inc) if inc else 0.0
Rate(sav, inc) == IF inc # 0 THEN TrueDiv(sav, inc) ELSE TrueDiv(0, 1)

\* df_year[df_year["kind"]==kind] without the test of excluded
OfKind(df_year, kind) ==
    LET Keep(r) == r.kind = kind
    IN  SelectSeq(df_year, Keep)

\* df_year[(df_year["kind"]==kind) & (df_year["excluded"]==0)]
Counted(df_year, kind) ==
    LET Keep(r) == r.kind = kind /\ r.excluded = 0
    IN  SelectSeq(df_year, Keep)

compute_summary(df_year, exp_cats, inc_cats) ==
    LET exp0 == Counted(df_year, "expense")
        exp == [i \in 1..Len(exp0) |->
                  [category |-> exp0[i].category, txn_date |-> exp0[i].txn_date,
                   value |-> signed_to_spend(exp0[i].amount)]]
        inc0 == Counted(df_year, "income")
        inc == [i \in 1..Len(inc0) |->
                  [category |-> inc0[i].category, txn_date |-> inc0[i].txn_date,
                   value |-> inc0[i].amount]]
        exp_pivot == pivot_table(exp, exp_cats)
        inc_pivot == pivot_table(inc, inc_cats)
        total_spent == YtdTotal(exp_pivot)
        total_income == YtdTotal(inc_pivot)
        saved_by_month == [m \in 1..12 |->
                              FSub(ColSum(inc_pivot, m), ColSum(exp_pivot, m))]
        savings_rate_month == [m \in 1..12 |->
                                  Rate(saved_by_month[m], ColSum(inc_pivot, m))]
        total_saved == FSub(total_income, total_spent)
        savings_rate_ytd == Rate(total_saved, total_income)
        saved_row == SummaryRow("Total Saved", saved_by_month,
                                TrueDiv(total_saved, 12), total_saved)
        rate_row == [label |-> "Savings Rate", months |-> savings_rate_month,
                     avg_month |-> NULL, ytd |-> savings_rate_ytd,
                     avg_week |-> NULL, avg_day |-> NULL]
    IN  [exp_table |-> Append(CategoryRows(exp_pivot, exp_cats),
                              TotalRow("Total Spent", exp_pivot)),
         inc_table |-> Append(CategoryRows(inc_pivot, inc_cats),
                              TotalRow("Total Net Income", inc_pivot)),
         savings_table |-> <<saved_row, rate_row>>,
         savings_rate_ytd |-> savings_rate_ytd]

(***************************************************************************)
(* Sheet View: the expense table it shows.                                 *)
(***************************************************************************)
\* the category names of the model in alphabetical order
AlphaOrder == <<"Groceries", "Rent", "Salary">>

RECURSIVE sorted_from(_, _)
\* sorted(cats): the entries of cats named AlphaOrder[k], then the later names
sorted_from(cats, k) ==
    IF k > Len(AlphaOrder) THEN <<>>
    ELSE LET Named(c) == c = AlphaOrder[k]
         IN  SelectSeq(cats, Named) \o sorted_from(cats, k + 1)

sorted(cats) == sorted_from(cats, 1)

RECURSIVE loc(_, _, _)
\* table.loc[labels] from the k-th label on: for each label, in the order of
\* labels, the rows of the table that carry it
loc(table, labels, k) ==
    IF k > Len(labels) THEN <<>>
    ELSE LET HasLabel(row) == row.label = labels[k]
         IN  SelectSeq(table, HasLabel) \o loc(table, labels, k + 1)

\* df_year[(kind=="expense") & (excluded==0) & (category.isna() | (category==""))]
Uncategorized(df_year) ==
    LET Keep(r) == /\ r.kind = "expense"
                   /\ r.excluded = 0
                   /\ (r.category = NULL \/ r.category = "")
    IN  SelectSeq(df_year, Keep)

\* the row "Uncategorized": unc.groupby("month")["spend"].sum() and its sums
UncategorizedRow(unc) ==
    LET MonthSpend(m) ==
            LET InMonth(r) == month_of(r.txn_date) = m
                g == SelectSeq(unc, InMonth)
            IN  group_sum([k \in 1..Len(g) |-> signed_to_spend(g[k].amount)])
        months == [m \in 1..12 |-> MonthSpend(MONTH_COLS[m])]
    IN  SummaryRow("Uncategorized", months, TrueDiv(np_sum(months, 12), 12),
                   np_sum(months, 12))

\* the expense table of Sheet View
sheet_view(df_year, exp_cats, inc_cats, sort_alpha, show_uncat) ==
    LET cats_for_table == IF sort_alpha THEN sorted(exp_cats) ELSE exp_cats
        exp_table == compute_summary(df_year, cats_for_table, inc_cats).exp_table
        unc == Uncategorized(df_year)
        NotTotal(c) == c # "Total Spent"
        labels == [k \in 1..Len(exp_table) |-> exp_table[k].label]
        base_rows == SelectSeq(labels, NotTotal)
    IN  IF show_uncat /\ unc # <<>>
        THEN loc(exp_table, base_rows, 1) \o <<UncategorizedRow(unc)>>
                \o loc(exp_table, <<"Total Spent">>, 1)
        ELSE exp_table


(***************************************************************************)
(* Two browser sessions on one database file.  db() opens a connection of  *)
(* its own for each insert_rows; sqlite3 begins a transaction at the first *)
(* INSERT, which takes the write lock of the file, and "with db()" commits *)
(* after the loop.  A connection that finds the lock taken waits, and      *)
(* raises OperationalError (database is locked) when the wait runs out.    *)
(***************************************************************************)
Sessions == {1, 2}

\* [ledger, inserted, skipped] before the first INSERT
NoCounts == [ledger |-> <<>>, inserted |-> 0, skipped |-> 0]

\* a session that has not pressed Import CSV
NoImport == [pc |-> "idle", df |-> <<>>, i |-> 1, now |-> "", acc |-> NoCounts]

\* a database file without a write lock
NoLock(c) == FALSE

\* the connection has executed an INSERT and not committed
HoldsLock(c) == c.pc = "insert" /\ c.i > 1

\* one turn of the loop of insert_rows
insert_step(acc, r, now) ==
    IF UniqueOK(acc.ledger, r) /\ NotNullOK(r)
    THEN Inserted(acc, r, now)
    ELSE OnIntegrityError(acc)

ExternalIds(df) == {df[k].external_id : k \in 1..Len(df)}

(***************************************************************************)
(* The state after init_db() on a new database, and the handlers.          *)
(***************************************************************************)
Init ==
    /\ ledger = <<>>
    /\ locked_months = {}
    /\ app_state = [k \in {"prefs_json"} |-> [present |-> FALSE, value |-> InvalidText]]
    /\ prefs_file = NoFile
    /\ expense_cats = <<"Groceries", "Rent">>
    /\ income_cats = <<"Salary">>
    /\ goals = EmptyMap
    /\ year = CurrentYear
    /\ sessions = [s \in Sessions |-> NoImport]

\* the handler wrote L2 and called st.rerun()
Wrote(L2) ==
    /\ Len(L2) <= MaxRows
    /\ ledger' = L2
    /\ year' = Rerun(year, L2)

\* save_prefs: the app_state copy, then the file (a failed write is swallowed)
SavedPrefs(st, file, prefs, write) ==
    [app_state |-> set_state(st, "prefs_json", json_dumps(prefs)),
     prefs_file |-> save_json_file(file, prefs, write)]

save_prefs(prefs, write) ==
    /\ app_state' = SavedPrefs(app_state, prefs_file, prefs, write).app_state
    /\ prefs_file' = SavedPrefs(app_state, prefs_file, prefs, write).prefs_file

Locked == get_locked_months(locked_months, year)

SelectYear(y) ==
    /\ y \in YearOptions(ledger)
    /\ year' = y
    /\ UNCHANGED <<ledger, locked_months, app_state, prefs_file, expense_cats,
                   income_cats, goals, sessions>>

\* Sheet View: Save month locks
SaveMonthLocks(new_locked) ==
    /\ HasYearData(ledger, year)
    /\ locked_months' = save_locked_months(locked_months, year, new_locked)
    /\ UNCHANGED <<ledger, app_state, prefs_file, expense_cats, income_cats,
                   goals, year, sessions>>

ImportCSV(file, account_name, route_credits, allow_locked, now) ==
    /\ Wrote(ImportPage(ledger, Locked, load_prefs, file, account_name,
                        route_credits, allow_locked, now).ledger)
    /\ UNCHANGED <<locked_months, app_state, prefs_file, expense_cats, income_cats, goals, sessions>>

WizardSave(w_cat, apply_to_prefs, apply_similar, write) ==
    /\ WizardOpen(ledger, Locked, year)
    /\ LET r == WizardSaveNext(ledger, get_locked_months(locked_months, year), load_prefs,
                               year, w_cat, apply_to_prefs, apply_similar)
       IN  /\ Wrote(r.ledger)
           /\ IF r.save THEN save_prefs(r.prefs, write)
              ELSE UNCHANGED <<app_state, prefs_file>>
    /\ UNCHANGED <<locked_months, expense_cats, income_cats, goals, sessions>>

BulkSave(edited, write) ==
    /\ Needs(ledger, year) # <<>>
    /\ LET r == BulkSaveMappings(ledger, get_locked_months(locked_months, year),
                                 load_prefs, year, edited)
       IN  /\ Wrote(r.ledger)
           /\ save_prefs(r.prefs, write)
    /\ UNCHANGED <<locked_months, expense_cats, income_cats, goals, sessions>>

AdminSaveEdits(edited_ids, cv) ==
    /\ HasYearData(ledger, year)
    /\ edited_ids \subseteq {r.id : r \in SeqToSet(fetch_year(ledger, year))}
    /\ Wrote(AdminSave(ledger, Locked, year, edited_ids, cv).ledger)
    /\ UNCHANGED <<locked_months, app_state, prefs_file, expense_cats, income_cats, goals, sessions>>

ManualExpense(m_date, m_desc, m_amt, m_acct, m_cat, m_excl, m_notes, now) ==
    /\ Wrote(ManualExpenseForm(ledger, Locked, m_date, m_desc, m_amt, m_acct, m_cat,
                               m_excl, m_notes, now).ledger)
    /\ UNCHANGED <<locked_months, app_state, prefs_file, expense_cats, income_cats, goals, sessions>>

ManualIncome(i_date, i_desc, i_amt, i_acct, i_cat, i_notes, now) ==
    /\ Wrote(ManualIncomeForm(ledger, Locked, i_date, i_desc, i_amt, i_acct, i_cat,
                              i_notes, now).ledger)
    /\ UNCHANGED <<locked_months, app_state, prefs_file, expense_cats, income_cats, goals, sessions>>

\* Sheet View "Add" (the ctx is the selected year and the chosen month), then the form
QuickAdd(month, category, d, amt, desc, acct, notes, now) ==
    /\ HasYearData(ledger, year)
    /\ YM(d) = <<year, month>>
    /\ Wrote(QuickAddDialog(ledger, get_locked_months(locked_months, year), month,
                            category, d, amt, desc, acct, notes, now).ledger)
    /\ UNCHANGED <<locked_months, app_state, prefs_file, expense_cats, income_cats, goals, sessions>>

(***************************************************************************)
(* Goals and configuration saves.                                          *)
(***************************************************************************)
\* existing.get(c, 0.0) for the categories of the editor
ExistingGoals(g, y, cats) ==
    [c \in SeqToSet(cats) |-> IF <<y, c>> \in DOMAIN g THEN g[<<y, c>>] ELSE 0]

\* INSERT ... ON CONFLICT(year,category) DO UPDATE, for each row of the editor
UpsertGoals(g, y, edited) ==
    [k \in DOMAIN g \cup {<<y, c>> : c \in DOMAIN edited} |->
        IF k[1] = y /\ k[2] \in DOMAIN edited THEN edited[k[2]] ELSE g[k]]

\* Goals: Save goals
SaveGoals(edited) ==
    /\ expense_cats # <<>>
    /\ HasYearData(ledger, year)
    /\ DOMAIN edited = SeqToSet(expense_cats)
    /\ goals' = UpsertGoals(goals, year, edited)
    /\ UNCHANGED <<ledger, locked_months, app_state, prefs_file, expense_cats,
                   income_cats, year, sessions>>

\* [c.strip() for c in edited if c.strip()]
NonBlank(c) == c # ""

\* Admin: Categories, Save expense categories (the state copy is what loads)
SaveExpenseCategories(edited) ==
    /\ expense_cats' = SelectSeq(edited, NonBlank)
    /\ UNCHANGED <<ledger, locked_months, app_state, prefs_file, income_cats,
                   goals, year, sessions>>

\* Admin: Categories, Save income categories
SaveIncomeCategories(edited) ==
    /\ income_cats' = SelectSeq(edited, NonBlank)
    /\ UNCHANGED <<ledger, locked_months, app_state, prefs_file, expense_cats,
                   goals, year, sessions>>

\* json.loads without the isinstance test
IsJson(text) == json_loads(text).ok

\* json.loads and isinstance(obj, dict): text is [json, value]
IsJsonObject(text) == json_loads(text).ok /\ text.json = "object"

\* the try block of both pages: [error, app_state, prefs_file]
SubmitPreferences(st, file, text, write) ==
    IF ~json_loads(text).ok
    THEN [error |-> "Invalid JSON", app_state |-> st, prefs_file |-> file]
    ELSE IF ~IsJsonObject(text)
    THEN [error |-> "Must be a JSON object.", app_state |-> st, prefs_file |-> file]
    ELSE [error |-> "", app_state |-> SavedPrefs(st, file, json_loads(text).value, write).app_state,
          prefs_file |-> SavedPrefs(st, file, json_loads(text).value, write).prefs_file]

\* Import: Upload preferences.json; Admin: Categories, Save preferences.json
SavePreferencesJson(text, write) ==
    /\ app_state' = SubmitPreferences(app_state, prefs_file, text, write).app_state
    /\ prefs_file' = SubmitPreferences(app_state, prefs_file, text, write).prefs_file
    /\ UNCHANGED <<ledger, locked_months, expense_cats, income_cats, goals, year, sessions>>

(***************************************************************************)
(* The inputs of the specification.                                        *)
(***************************************************************************)
Years == {2023, 2024}
Dates == {Jan23, Jan24}
LockChoices == {{}, {1}}
WizardCategories == {"", "Rent"}
EditChoices == { <<"txn_date", Jan24>>, <<"description", DescB>> }
\* the table rows the user changed: none, one, or all of them
EditedRows(L, y) ==
    LET shown == {r.id : r \in SeqToSet(fetch_year(L, y))}
    IN  {{}} \cup {{i} : i \in shown} \cup {shown}
ManualDescriptions == {<<>>, DescA}
IncomeDescriptions == {<<>>, DescA}

Next ==
    \/ \E y \in Years : SelectYear(y)
    \/ \E m \in LockChoices : SaveMonthLocks(m)
    \/ \E f \in Statements, al \in BOOLEAN, t \in Times : ImportCSV(f, "Chase", TRUE, al, t)
    \/ \E c \in WizardCategories, ap \in BOOLEAN, sim \in BOOLEAN :
          WizardSave(c, ap, sim, "ok")
    \/ \E e \in BulkEdits(ledger, load_prefs, year, WizardCategories) : BulkSave(e, "ok")
    \/ \E E \in EditedRows(ledger, year), cv \in EditChoices : AdminSaveEdits(E, cv)
    \/ \E d \in Dates, desc \in ManualDescriptions, t \in Times :
          ManualExpense(d, desc, 50000, "Chase", "", FALSE, "", t)
    \/ \E desc \in IncomeDescriptions, t \in Times :
          ManualIncome(Jan24, desc, 3000000, "Other", "", "", t)
    \/ \E d \in Dates, t \in Times :
          QuickAdd(1, "Groceries", d, 50000, <<>>, "Venmo", "", t)

Spec == Init /\ [][Next]_vars

\* the editors' contents
GoalEdits ==
    LET shown == ExistingGoals(goals, year, expense_cats)
    IN  {[shown EXCEPT ![c] = 400000] : c \in {"Groceries"} \cap DOMAIN shown}
CategoryEdits == {<<"Groceries", "Rent">>, <<"Groceries", "", "Rent">>}
IncomeEdits == {<<"Salary">>, <<"Salary", "">>}
PrefsTexts ==
    {json_dumps(EmptyMap), [json |-> "array", value |-> EmptyMap], InvalidText}

Config ==
    \/ \E e \in GoalEdits : SaveGoals(e)
    \/ \E e \in CategoryEdits : SaveExpenseCategories(e)
    \/ \E e \in IncomeEdits : SaveIncomeCategories(e)
    \/ \E x \in PrefsTexts : SavePreferencesJson(x, "ok")

NextAll == Next \/ Config

SpecAll == Init /\ [][NextAll]_vars

(***************************************************************************)
(* The preference store on its own: uploads and edits of preferences.json, *)
(* the handlers that save the map, file writes that fail, and a deployment *)
(* that replaces the files of the working directory.                       *)
(***************************************************************************)
PrefsObjects == {EmptyMap, DescA :> "Rent", DescB :> "Groceries"}

PrefsUploads == {json_dumps(p) : p \in PrefsObjects} \cup
                {[json |-> "array", value |-> EmptyMap], InvalidText}

\* what config/preferences.json can hold when a process starts
PrefsFiles == {NoFile, [exists |-> TRUE, text |-> InvalidText]} \cup
              {[exists |-> TRUE, text |-> json_dumps(p)] : p \in PrefsObjects}

\* a new deployment: the files are those of the checkout, the database stays
Redeploy(file) ==
    /\ prefs_file' = file
    /\ UNCHANGED <<ledger, locked_months, app_state, expense_cats, income_cats,
                   goals, year, sessions>>

NextPrefs ==
    \/ \E x \in PrefsUploads, w \in WriteOutcomes : SavePreferencesJson(x, w)
    \/ \E f \in {StmtVariants, StmtTwoYears}, t \in Times : ImportCSV(f, "Chase", TRUE, FALSE, t)
    \/ \E c \in WizardCategories, ap \in BOOLEAN, sim \in BOOLEAN, w \in WriteOutcomes :
          WizardSave(c, ap, sim, w)
    \/ \E e \in BulkEdits(ledger, load_prefs, year, WizardCategories), w \in WriteOutcomes :
          BulkSave(e, w)
    \/ \E file \in PrefsFiles : Redeploy(file)

SpecPrefs == Init /\ [][NextPrefs]_vars

(***************************************************************************)
(* make_external_ids and insert_rows on their own: batches of records are  *)
(* inserted directly.                                                      *)
(***************************************************************************)
Purchase ==
    [txn_date |-> Jan24, posted_date |-> Jan24, description |-> DescA,
     amount |-> -50000, kind |-> "expense", account |-> "Chase",
     category |-> NULL, excluded |-> 0, notes |-> NULL]

\* Purchase and records that differ from it in one way each
Records ==
    {Purchase,
     [Purchase EXCEPT !.category = "Rent", !.excluded = 1, !.notes = "n"],
     [Purchase EXCEPT !.amount = -50004],
     [Purchase EXCEPT !.amount = -51000],
     [Purchase EXCEPT !.description = DescB]}

RECURSIVE SeqsUpTo(_, _)
SeqsUpTo(S, n) ==
    IF n = 0 THEN {<<>>}
    ELSE LET shorter == SeqsUpTo(S, n - 1)
         IN  shorter \cup {Append(q, x) : q \in shorter, x \in S}

Batches == SeqsUpTo(Records, MaxBatch) \ {<<>>}

InsertBatch(df, now) ==
    /\ LET res == insert_rows(ledger, WithExternalIds(df), now)
       IN  /\ Len(res.ledger) <= MaxStore
           /\ ledger' = res.ledger
    /\ UNCHANGED <<locked_months, app_state, prefs_file, expense_cats, income_cats,
                   goals, year, sessions>>

NextIds == \E df \in Batches, now \in Times : InsertBatch(df, now)

SpecIds == Init /\ [][NextIds]_vars

(***************************************************************************)
(* import_chase_csv on its own: statements made of lines that differ in    *)
(* what their cells hold are imported one after the other.                 *)
(***************************************************************************)
GoodLine == Cell(MDY(Jan24), MDY(Jan24), DescA, Num(-50000), "Sale")

\* cells that do not parse, and empty cells (NaN)
BadDate == [fmt |-> "garbage", v |-> NoDate]
NoDateCell == [fmt |-> "nan", v |-> NoDate]
BadAmount == [fmt |-> "garbage", v |-> 0]
NoAmountCell == [fmt |-> "nan", v |-> 0]

\* GoodLine and lines that differ from it in one cell
Lines ==
    {GoodLine,
     [GoodLine EXCEPT !.txn = BadDate],
     [GoodLine EXCEPT !.txn = NoDateCell],
     [GoodLine EXCEPT !.amt = BadAmount],
     [GoodLine EXCEPT !.amt = NoAmountCell],
     [GoodLine EXCEPT !.desc = [nan |-> TRUE, text |-> <<>>]],
     [GoodLine EXCEPT !.desc = [nan |-> FALSE, text |-> <<" ">>]],
     [GoodLine EXCEPT !.txn = [fmt |-> "to_datetime", v |-> Feb24],
                      !.desc = [nan |-> FALSE, text |-> <<" ", "B">>],
                      !.amt = [fmt |-> "text", v |-> -1000000]],
     [GoodLine EXCEPT !.type = "Payment"],
     [GoodLine EXCEPT !.amt = Num(20000), !.type = "Adjustment"]}

LineFiles ==
    {[name |-> "lines", cols |-> AllCols, rows |-> rows] :
        rows \in SeqsUpTo(Lines, MaxBatch) \ {<<>>}}

ImportLines(file, account_name, route_credits, now) ==
    /\ LET r == ImportPage(ledger, Locked, load_prefs, file, account_name, route_credits,
                           FALSE, now)
       IN  /\ Len(r.ledger) <= MaxStore
           /\ ledger' = r.ledger
           /\ year' = Rerun(year, r.ledger)
    /\ UNCHANGED <<locked_months, app_state, prefs_file, expense_cats, income_cats, goals, sessions>>

NextParse ==
    \E f \in LineFiles, a \in {"Chase", "Venmo"}, rc \in BOOLEAN, now \in Times :
        ImportLines(f, a, rc, now)

SpecParse == Init /\ [][NextParse]_vars

(***************************************************************************)
(* compute_summary on its own: the manual forms fill one month of the      *)
(* sheet with amounts of different magnitudes.                             *)
(***************************************************************************)
SheetAmounts == {33554432, 20, 30}

EnterExpense(m_date, m_amt, m_cat, m_excl, now) ==
    /\ LET r == ManualExpenseForm(ledger, Locked, m_date, DescA, m_amt, "Venmo", m_cat,
                                  m_excl, "", now)
       IN  /\ Len(r.ledger) <= MaxSheet
           /\ ledger' = r.ledger
           /\ year' = Rerun(year, r.ledger)
    /\ UNCHANGED <<locked_months, app_state, prefs_file, expense_cats, income_cats, goals, sessions>>

EnterIncome(i_date, i_amt, i_cat, now) ==
    /\ LET r == ManualIncomeForm(ledger, Locked, i_date, DescA, i_amt, "Other", i_cat,
                                 "", now)
       IN  /\ Len(r.ledger) <= MaxSheet
           /\ ledger' = r.ledger
           /\ year' = Rerun(year, r.ledger)
    /\ UNCHANGED <<locked_months, app_state, prefs_file, expense_cats, income_cats, goals, sessions>>

NextSheet ==
    \/ \E a \in SheetAmounts, c \in {"Groceries", "Rent"}, x \in BOOLEAN, now \in Times :
          EnterExpense(Jan24, a, c, x, now)
    \/ \E a \in {33554432, 20}, now \in Times : EnterIncome(Jan24, a, "Salary", now)

SpecSheet == Init /\ [][NextSheet]_vars

(***************************************************************************)
(* Two sessions import while the ledger holds what one user imported       *)
(* before.  Each session presses Import CSV once; its INSERTs and its      *)
(* commit are steps of their own, interleaved with the other session's.    *)
(***************************************************************************)
\* the clock of insert_rows in the sessions, later than Times
SessionTimes == {"t2", "t3"}

\* Import CSV pressed in session s: the frame is parsed, filtered and mapped,
\* and insert_rows opens its connection
PressImport(s, file, account_name, route_credits, allow_locked, now) ==
    /\ sessions[s].pc = "idle"
    /\ LET p == ImportPage(ledger, Locked, load_prefs, file, account_name,
                           route_credits, allow_locked, now)
       IN  /\ ~p.error
           /\ p.df_new # <<>>
           /\ Cardinality(ExternalIds(ledger) \cup ExternalIds(p.given)
                            \cup UNION {ExternalIds(sessions[o].df) : o \in Sessions})
                 <= MaxStore
           /\ sessions' = [sessions EXCEPT ![s] =
                  [pc |-> "insert", df |-> p.given, i |-> 1, now |-> now, acc |-> NoCounts]]
    /\ UNCHANGED <<ledger, locked_months, app_state, prefs_file, expense_cats,
                   income_cats, goals, year>>

\* conn.execute(INSERT ...) of the next row; the first one begins the
\* transaction on the ledger as committed
ExecuteInsert(s) ==
    LET c == sessions[s]
        acc == IF c.i = 1 THEN [c.acc EXCEPT !.ledger = ledger] ELSE c.acc
    IN  /\ c.pc = "insert"
        /\ c.i <= Len(c.df)
        /\ \A o \in Sessions \ {s} : ~HoldsLock(sessions[o])
        /\ sessions' = [sessions EXCEPT ![s].i = c.i + 1,
                                         ![s].acc = insert_step(acc, c.df[c.i], c.now)]
        /\ UNCHANGED <<ledger, locked_months, app_state, prefs_file, expense_cats,
                       income_cats, goals, year>>

\* the first INSERT finds the write lock taken until the wait runs out:
\* OperationalError leaves insert_rows and the page shows it as an error
DatabaseIsLocked(s) ==
    LET c == sessions[s]
    IN  /\ c.pc = "insert"
        /\ c.i = 1
        /\ c.i <= Len(c.df)
        /\ \E o \in Sessions \ {s} : HoldsLock(sessions[o])
        /\ sessions' = [sessions EXCEPT ![s].pc = "failed"]
        /\ UNCHANGED <<ledger, locked_months, app_state, prefs_file, expense_cats,
                       income_cats, goals, year>>

\* the end of "with db()": the commit, then the counts are shown and the
\* page reruns
CommitImport(s) ==
    LET c == sessions[s]
        L2 == IF c.i = 1 THEN ledger ELSE c.acc.ledger
    IN  /\ c.pc = "insert"
        /\ c.i > Len(c.df)
        /\ ledger' = L2
        /\ year' = Rerun(year, L2)
        /\ sessions' = [sessions EXCEPT ![s].pc = "done", ![s].acc.ledger = <<>>]
        /\ UNCHANGED <<locked_months, app_state, prefs_file, expense_cats,
                       income_cats, goals>>

\* an import of the one user, before either session has pressed Import CSV
ImportBefore(file, now) ==
    /\ \A s \in Sessions : sessions[s].pc = "idle"
    /\ ImportCSV(file, "Chase", TRUE, TRUE, now)

NextSessions ==
    \/ \E f \in {StmtDup, StmtCredit}, t \in Times : ImportBefore(f, t)
    \/ \E m \in LockChoices : SaveMonthLocks(m)
    \/ \E s \in Sessions, f \in {StmtDup, StmtTwoMonths, StmtCredit}, al \in BOOLEAN,
          t \in SessionTimes :
          PressImport(s, f, "Chase", TRUE, al, t)
    \/ \E s \in Sessions : ExecuteInsert(s)
    \/ \E s \in Sessions : DatabaseIsLocked(s)
    \/ \E s \in Sessions : CommitImport(s)

SpecSessions == Init /\ [][NextSessions]_vars

(***************************************************************************)
(* The categorize wizard run again and again on what the imports bring,    *)
(* while months are locked and unlocked.  Pressing Save & Next with a      *)
(* category chosen is weakly fair: the user keeps running the wizard.      *)
(***************************************************************************)
SaveAndNext ==
    \E c \in {"Groceries", "Rent"}, ap \in BOOLEAN, sim \in BOOLEAN :
        WizardSave(c, ap, sim, "ok")

NextWizard ==
    \/ \E f \in {StmtTwoMonths, StmtTwoYears, StmtVariants}, al \in BOOLEAN, t \in Times :
          ImportCSV(f, "Chase", TRUE, al, t)
    \/ \E m \in {{}, {1}, {2}} : SaveMonthLocks(m)
    \/ \E y \in Years : SelectYear(y)
    \/ SaveAndNext

SpecWizard == Init /\ [][NextWizard]_vars /\ WF_vars(SaveAndNext)

(***************************************************************************)
(* The tables of the sheet: the manual forms, the ledger editor and the    *)
(* category editor give compute_summary its transactions and its lists.    *)
(***************************************************************************)
Jan01 == <<2024, 1, 1>>

\* date, amount, category, excluded
TableExpenses ==
    {<<Jan24, 50000, "Groceries", FALSE>>, <<Feb24, 1000000, "Rent", FALSE>>,
     <<Jan24, 33554432, "Groceries", FALSE>>, <<Feb24, 30, "Rent", FALSE>>,
     <<Jan24, 20, "", FALSE>>, <<Feb24, 20, "Rent", TRUE>>}

\* date, amount, category
TableIncomes == {<<Jan01, 3000000, "Salary">>, <<Feb24, 20, "">>}

TableCategoryEdits ==
    {<<"Rent", "Groceries">>, <<"Groceries">>, <<"Groceries", "Rent", "Rent">>}

\* Admin: Ledger, Save edits, with the amount of one row changed
EditAmount(txn_id, amount) ==
    /\ HasYearData(ledger, year)
    /\ txn_id \in {r.id : r \in SeqToSet(fetch_year(ledger, year))}
    /\ LET L2 == AdminSave(ledger, Locked, year, {txn_id}, <<"amount", amount>>).ledger
       IN  /\ ledger' = L2
           /\ year' = Rerun(year, L2)
    /\ UNCHANGED <<locked_months, app_state, prefs_file, expense_cats, income_cats, goals, sessions>>

NextTables ==
    \/ \E e \in TableExpenses, now \in Times : EnterExpense(e[1], e[2], e[3], e[4], now)
    \/ \E i \in TableIncomes, now \in Times : EnterIncome(i[1], i[2], i[3], now)
    \/ \E id \in 1..MaxSheet : EditAmount(id, -50000)
    \/ \E e \in TableCategoryEdits : SaveExpenseCategories(e)

SpecTables == Init /\ [][NextTables]_vars

(***************************************************************************)
(* Properties of identity assignment and of insert_rows.                   *)
(***************************************************************************)
LedgerIds(L) == {L[i].external_id : i \in 1..Len(L)}

\* the row carries the record: every column the INSERT supplies
Carries(row, rec) ==
    /\ row.external_id = rec.external_id
    /\ row.txn_date = rec.txn_date /\ row.posted_date = rec.posted_date
    /\ row.description = rec.description /\ row.amount = rec.amount
    /\ row.kind = rec.kind /\ row.account = rec.account
    /\ row.category = rec.category /\ row.excluded = rec.excluded
    /\ row.notes = rec.notes

\* a and b agree on (transaction date, posted date, amount, description, account, kind)
SameRecord(a, b) ==
    /\ a.txn_date = b.txn_date /\ a.posted_date = b.posted_date
    /\ a.amount = b.amount /\ a.description = b.description
    /\ a.account = b.account /\ a.kind = b.kind

Group(df, i) == {j \in 1..Len(df) : SameRecord(df[i], df[j])}

GroupIds(df, i) == {make_external_ids(df)[j] : j \in Group(df, i)}

AllInserted(L, df, i) ==
    LET given == WithExternalIds(df)
        res == insert_rows(L, given, "t1")
    IN  \A j \in Group(df, i) :
            \E n \in (Len(L) + 1)..Len(res.ledger) : Carries(res.ledger[n], given[j])

\* C5: k >= 2 records of one batch that agree on (transaction date, posted
\* date, amount, description, account, kind) get k pairwise distinct
\* identifiers, and insert_rows inserts all k of them into a ledger in which
\* no row carries one of these identifiers.
C5_DuplicatesPreserved ==
    \A df \in Batches : \A i \in 1..Len(df) :
        Cardinality(Group(df, i)) >= 2 =>
            /\ Cardinality(GroupIds(df, i)) = Cardinality(Group(df, i))
            /\ GroupIds(df, i) \cap LedgerIds(ledger) = {} => AllInserted(ledger, df, i)

\* a ledger that already has rows takes both records of a duplicate pair
C5_Witness ==
    /\ ledger # <<>>
    /\ \E df \in Batches : \E i \in 1..Len(df) :
          /\ Cardinality(Group(df, i)) >= 2
          /\ GroupIds(df, i) \cap LedgerIds(ledger) = {}
          /\ AllInserted(ledger, df, i)
          /\ insert_rows(ledger, WithExternalIds(df), "t1").inserted >= 2

\* the record at position i has an identifier that is in the ledger or that an
\* earlier record of the batch has
Collides(L, given, i) ==
    \/ given[i].external_id \in LedgerIds(L)
    \/ \E j \in 1..(i - 1) : given[j].external_id = given[i].external_id

Fresh(L, given) == {i \in 1..Len(given) : ~Collides(L, given, i)}

\* (transaction date, posted date, amount to 2 decimals, description, account, kind)
IdentityKey(r) ==
    <<r.txn_date, r.posted_date, Fmt2(r.amount), r.description, r.account, r.kind>>

\* the batches that agree with df, position by position, on the identity key
SameKeys(df) ==
    {b \in Batches : Len(b) = Len(df) /\ \A i \in 1..Len(df) : IdentityKey(b[i]) = IdentityKey(df[i])}

\* the rank of position i among the records of df with its identity key
Rank(df, i) ==
    Cardinality({j \in 1..i : IdentityKey(df[j]) = IdentityKey(df[i])})

\* C6: make_external_ids is a function of the ordered batch: a second run on
\* the same records (with the identifiers of the first run attached) gives
\* every position the same identifier; batches that agree position by position
\* on (transaction date, posted date, amount to 2 decimals, description,
\* account, kind) get the same identifiers whatever their categories, excluded
\* flags and notes, so that the ledger takes and skips the same positions of
\* both; and the counter of an identifier is the rank of its record among the
\* records of the batch with its key.
C6_IdentifierStability ==
    \A df \in Batches :
        /\ make_external_ids(WithExternalIds(df)) = make_external_ids(df)
        /\ \A b \in SameKeys(df) :
              /\ make_external_ids(b) = make_external_ids(df)
              /\ Fresh(ledger, WithExternalIds(b)) = Fresh(ledger, WithExternalIds(df))
              /\ insert_rows(ledger, WithExternalIds(b), "t1").inserted
                    = insert_rows(ledger, WithExternalIds(df), "t1").inserted
        /\ \A i \in 1..Len(df) :
              make_external_ids(df)[i][2] = Rank(df, i)

\* the ledger holds two rows of one duplicate group that differ in category,
\* excluded flag, notes and in the amount beyond the second decimal
C6_Witness ==
    \E i, j \in 1..Len(ledger) :
        /\ ledger[i].external_id[1] = ledger[j].external_id[1]
        /\ ledger[i].external_id[2] # ledger[j].external_id[2]
        /\ ledger[i].category # ledger[j].category
        /\ ledger[i].excluded # ledger[j].excluded
        /\ \E k \in 1..Len(ledger) :
              /\ ledger[k].external_id[1] = ledger[i].external_id[1]
              /\ ledger[k].amount # ledger[i].amount

\* what insert_rows is given: a batch with its identifiers, once or twice over
Given(df, twice) == IF twice THEN WithExternalIds(df) \o WithExternalIds(df) ELSE WithExternalIds(df)

\* C8: insert_rows leaves every field of every existing row unchanged, skips
\* and counts each record whose identifier is in the ledger or was inserted
\* earlier in the batch, inserts and counts every other record, so that
\* inserted + skipped is the number of records given and skipped is the number
\* of identifier collisions (the records are those the callers supply: none
\* lacks a NOT NULL column).
C8_SkipNeverOverwrite ==
    \A df \in Batches, twice \in BOOLEAN :
        LET given == Given(df, twice)
            res == insert_rows(ledger, given, "t1")
            fresh == Fresh(ledger, given)
        IN  /\ SubSeq(res.ledger, 1, Len(ledger)) = ledger
            /\ res.skipped = Len(given) - Cardinality(fresh)
            /\ res.inserted = Cardinality(fresh)
            /\ res.inserted + res.skipped = Len(given)
            /\ Len(res.ledger) = Len(ledger) + Cardinality(fresh)
            /\ \A i \in fresh :
                  \E n \in (Len(ledger) + 1)..Len(res.ledger) : Carries(res.ledger[n], given[i])

\* one batch with a record that collides with a ledger row, a record that
\* collides with an earlier record of the batch, and a record that is inserted
C8_Witness ==
    \E df \in Batches :
        LET given == Given(df, TRUE)
            res == insert_rows(ledger, given, "t1")
        IN  /\ \E i \in 1..Len(given) : given[i].external_id \in LedgerIds(ledger)
            /\ \E i \in 1..Len(given) :
                  /\ given[i].external_id \notin LedgerIds(ledger)
                  /\ Collides(ledger, given, i)
            /\ res.inserted > 0 /\ res.skipped > 0

(***************************************************************************)
(* Properties of the import page.                                          *)
(***************************************************************************)
\* one statement imported twice with the same options and nothing in between:
\* the second run reads the ledger the first one left and the year the rerun shows
ImportTwice(f, allow_locked) ==
    LET r1 == ImportPage(ledger, Locked, load_prefs, f, "Chase", TRUE, allow_locked, "t1")
        y1 == Rerun(year, r1.ledger)
    IN  [first |-> r1,
         second |-> ImportPage(r1.ledger, get_locked_months(locked_months, y1), load_prefs,
                               f, "Chase", TRUE, allow_locked, "t2")]

C7_ExternalIdUnique ==
    \A i, j \in 1..Len(ledger) :
        i # j => ledger[i].external_id # ledger[j].external_id

\* two rows of one duplicate group, one of them edited since it was inserted
C7_Witness ==
    \E i, j \in 1..Len(ledger) :
        /\ i # j
        /\ ledger[i].external_id[1] = ledger[j].external_id[1]
        /\ ledger[i].external_id[1] # base_hash(Signature(ledger[i]))

RowIds(L) == {L[i].id : i \in 1..Len(L)}

\* C9: no step of the application (import, manual add, categorize, edit,
\* lock and unlock, goal and configuration saves) removes a ledger row id.
C9_RowsNeverDeleted == [][RowIds(ledger) \subseteq RowIds(ledger')]_vars

\* rows were inserted, categorized and edited, a month was locked and goals
\* and preferences were saved
C9_Witness ==
    /\ Len(ledger) >= 2
    /\ locked_months # {}
    /\ DOMAIN goals # {}
    /\ app_state["prefs_json"].present
    /\ \E i \in 1..Len(ledger) : ledger[i].category = "Rent"
    /\ \E i \in 1..Len(ledger) : ledger[i].external_id[1] # base_hash(Signature(ledger[i]))

\* the rows update_category_for_description is to set
Targeted(r, description, y, M) ==
    /\ r.kind = "expense"
    /\ YearOf(r.txn_date) = y
    /\ r.category \in {NULL, ""}
    /\ r.description = description
    /\ month_of(r.txn_date) \notin M

LockSets == SUBSET {1, 2}

\* C10: update_category_for_description(description, category, year,
\* locked_months) sets the category of exactly the expense rows of that year
\* with an empty or null category, that description and a month outside
\* locked_months, and changes no other row and no other field.
C10_UpdateCategoryFrame ==
    \A description \in {DescA, DescB}, category \in {"Rent", "Groceries"},
       y \in Years, M \in LockSets :
        LET L2 == update_category_for_description(ledger, description, category, y, M)
        IN  /\ Len(L2) = Len(ledger)
            /\ \A i \in 1..Len(ledger) :
                  L2[i] = IF Targeted(ledger[i], description, y, M)
                          THEN [ledger[i] EXCEPT !.category = category]
                          ELSE ledger[i]

\* a call that sets one row and passes over a row of the same description and
\* year in a locked month
C10_Witness ==
    \E description \in {DescA, DescB}, y \in Years, M \in LockSets :
        LET L2 == update_category_for_description(ledger, description, "Rent", y, M)
        IN  \E i, j \in 1..Len(ledger) :
                /\ L2[i].category = "Rent" /\ ledger[i].category = NULL
                /\ ledger[j].description = description
                /\ YearOf(ledger[j].txn_date) = y
                /\ month_of(ledger[j].txn_date) \in M
                /\ ledger[j].category = NULL /\ L2[j] = ledger[j]

(***************************************************************************)
(* Properties of the month locks.  M is the lock set of the selected year  *)
(* that a page reads with get_locked_months(year).                         *)
(***************************************************************************)
\* the rows of year y dated in a month of M
RowsLockedIn(L, y, M) ==
    {i \in 1..Len(L) : YearOf(L[i].txn_date) = y /\ month_of(L[i].txn_date) \in M}

\* L2 has every row of I with every field as in L
Kept(L, L2, I) == Len(L2) >= Len(L) /\ \A i \in I : L2[i] = L[i]

ShownIds(L, y) == {r.id : r \in SeqToSet(fetch_year(L, y))}

\* the rows of the selected year dated in a month of M
LockedRows(M) == RowsLockedIn(ledger, year, M)

\* neither the wizard nor update_category_for_description changes a field of a
\* row dated in a locked month of the selected year
CategorizeKeepsLocked(M) ==
    /\ WizardOpen(ledger, M, year) =>
          \A c \in WizardCategories, ap \in BOOLEAN, sim \in BOOLEAN :
              Kept(ledger, WizardSaveNext(ledger, M, load_prefs, year, c, ap, sim).ledger,
                   LockedRows(M))
    /\ \A d \in {DescA, DescB}, c \in WizardCategories :
          Kept(ledger, update_category_for_description(ledger, d, c, year, M), LockedRows(M))

\* an admin-ledger save changes no field of such a row, and a save that edits
\* only such rows reports 0 changes
AdminKeepsLocked(M) ==
    \A E \in SUBSET ShownIds(ledger, year), cv \in EditChoices :
        LET r == AdminSave(ledger, M, year, E, cv)
        IN  /\ Kept(ledger, r.ledger, LockedRows(M))
            /\ E \subseteq {ledger[i].id : i \in LockedRows(M)} => r.changes = 0

\* the rows Save mappings is to categorize: those whose description got a category
BulkTargets(e) ==
    {i \in 1..Len(ledger) :
        /\ YearOf(ledger[i].txn_date) = year /\ NeedsCategory(ledger[i])
        /\ e[ledger[i].description] # ""}

\* a Save mappings whose rows all lie in locked months
BulkOnLockedOnly(M, e) ==
    BulkTargets(e) # {} /\ BulkTargets(e) \subseteq LockedRows(M)

NewRows(L, L2) == {L2[n] : n \in (Len(L) + 1)..Len(L2)}

IsLocked(d) == YM(d) \in locked_months

\* the import with the override for locked months left off
ImportNow(f) == ImportPage(ledger, Locked, load_prefs, f, "Chase", TRUE, FALSE, "t1")

ExpenseNow(d) ==
    ManualExpenseForm(ledger, Locked, d, DescA, 50000, "Chase", "", FALSE, "", "t1")

IncomeNow(d) == ManualIncomeForm(ledger, Locked, d, DescA, 3000000, "Other", "", "", "t1")

QuickAddNow(d) ==
    QuickAddDialog(ledger, Locked, month_of(d), "Groceries", d, 50000, <<>>, "Venmo", "", "t1")

\* C3 as stated: no inserting entry point (CSV import, manual expense, manual
\* income, quick-add dialog) adds a transaction whose (year, month) is locked,
\* and the import counts the rows it skipped for a lock.
C3_Original ==
    /\ \A f \in Statements :
          /\ \A row \in NewRows(ledger, ImportNow(f).ledger) : ~IsLocked(row.txn_date)
          /\ ImportNow(f).skipped_locked >=
                Cardinality({i \in 1..Len(ImportNow(f).df_new) :
                                IsLocked(ImportNow(f).df_new[i].txn_date)})
    /\ \A d \in Dates :
          /\ \A row \in NewRows(ledger, ExpenseNow(d).ledger) : ~IsLocked(row.txn_date)
          /\ \A row \in NewRows(ledger, IncomeNow(d).ledger) : ~IsLocked(row.txn_date)
          /\ YearOf(d) = year =>
                \A row \in NewRows(ledger, QuickAddNow(d).ledger) : ~IsLocked(row.txn_date)

\* C4 as stated: a lock of month m of year Y blocks the transactions dated in
\* month m of year Y and no others: an insert is refused, an imported row is
\* dropped and a row of the admin table is marked locked exactly when the
\* (year, month) of its date is locked.
C4_Original ==
    /\ \A d \in Dates :
          /\ ExpenseNow(d).refused = "That month is locked." <=> IsLocked(d)
          /\ IncomeNow(d).refused = "That month is locked." <=> IsLocked(d)
    /\ \A f \in Statements :
          LET df_new == ImportNow(f).df_new
          IN  LockFilter(df_new, Locked) =
                  SelectSeq2(df_new, {i \in 1..Len(df_new) : ~IsLocked(df_new[i].txn_date)}, 1)
    /\ \A k \in 1..Len(AdminTable(ledger, year, Locked)) :
          AdminTable(ledger, year, Locked)[k].locked
              <=> IsLocked(AdminTable(ledger, year, Locked)[k].txn_date)

(***************************************************************************)
(* Category suggestion on import.                                          *)
(***************************************************************************)
\* the rows the Import page hands to insert_rows, after the mapping
Suggested(f) == ImportPage(ledger, Locked, load_prefs, f, "Chase", TRUE, TRUE, "t1").given

NormalizedKeys(p) == {normalize_description(k) : k \in DOMAIN p}

WizardDescription == Needs(ledger, year)[1].description

\* C12: Save & Next with the similar-variants option off changes the category
\* of no ledger row whose description differs from the shown row's
\* description, and adds or changes no Preference Map key other than that
\* description.
C12_SimilarOptIn ==
    \A M \in LockSets :
        WizardOpen(ledger, M, year) =>
            \A c \in {"Rent", "Groceries"}, ap \in BOOLEAN :
                LET r == WizardSaveNext(ledger, M, load_prefs, year, c, ap, FALSE)
                IN  /\ Len(r.ledger) = Len(ledger)
                    /\ \A i \in 1..Len(ledger) :
                          ledger[i].description # WizardDescription
                              => r.ledger[i].category = ledger[i].category
                    /\ \A k \in (DOMAIN r.prefs \cup DOMAIN load_prefs) \ {WizardDescription} :
                          MapGet(r.prefs, k) = MapGet(load_prefs, k)

\* a variant of the shown description waits for a category: with the option
\* on it is categorized and gets a key, with the option off neither happens
C12_Witness ==
    /\ WizardOpen(ledger, Locked, year)
    /\ \E i \in 1..Len(ledger) :
          LET on == WizardSaveNext(ledger, Locked, load_prefs, year, "Rent", TRUE, TRUE)
              off == WizardSaveNext(ledger, Locked, load_prefs, year, "Rent", TRUE, FALSE)
          IN  /\ ledger[i].description # WizardDescription
              /\ on.ledger[i].category = "Rent" /\ off.ledger[i].category = NULL
              /\ MapGet(on.prefs, ledger[i].description) = "Rent"
              /\ MapGet(off.prefs, ledger[i].description) = NULL
              /\ MapGet(off.prefs, WizardDescription) = "Rent"

(***************************************************************************)
(* The preference store.                                                   *)
(***************************************************************************)
\* C13: after save_prefs(p), for any JSON object p, the empty one included,
\* load_prefs() returns p whatever the preferences file then holds and
\* whether or not the write of the file succeeded; a stored copy always wins
\* over the file, and the file is read only when there is no stored copy.
C13_PrefsPersist ==
    /\ \A p \in PrefsObjects, w \in WriteOutcomes :
          LET s == SavedPrefs(app_state, prefs_file, p, w)
          IN  /\ load_prefs_from(s.app_state, s.prefs_file) = p
              /\ \A file \in PrefsFiles : load_prefs_from(s.app_state, file) = p
    /\ \A file \in PrefsFiles :
          load_prefs_from(app_state, file) =
              IF get_state(app_state, "prefs_json").present
              THEN json_loads(get_state(app_state, "prefs_json").value).value
              ELSE load_json_file(file, EmptyMap)

\* the empty map is the stored copy while the file holds another map, and
\* the empty map is what loads
C13_Witness ==
    /\ get_state(app_state, "prefs_json").present
    /\ get_state(app_state, "prefs_json").value = json_dumps(EmptyMap)
    /\ load_json_file(prefs_file, EmptyMap) # EmptyMap
    /\ load_prefs = EmptyMap

\* C14: a preferences text that does not parse, or that is not a JSON object,
\* is rejected with an error on both pages and leaves the stored copy and the
\* file of the Preference Map as they were; a JSON object is saved.
C14_MalformedPrefsRejected ==
    \A x \in PrefsUploads, w \in WriteOutcomes :
        LET r == SubmitPreferences(app_state, prefs_file, x, w)
        IN  IF x.json = "object"
            THEN /\ r.error = ""
                 /\ load_prefs_from(r.app_state, r.prefs_file) = x.value
            ELSE /\ r.error # ""
                 /\ r.app_state = app_state
                 /\ r.prefs_file = prefs_file

\* a map is stored and on file, and a JSON array and an unparseable text are
\* both turned away
C14_Witness ==
    /\ load_prefs # EmptyMap
    /\ load_json_file(prefs_file, EmptyMap) = load_prefs
    /\ \A x \in PrefsUploads \ {json_dumps(p) : p \in PrefsObjects} :
          /\ SubmitPreferences(app_state, prefs_file, x, "ok").error # ""
          /\ SubmitPreferences(app_state, prefs_file, x, "ok").app_state = app_state

(***************************************************************************)
(* Statements the parser cannot read.                                      *)
(***************************************************************************)
RequiredColumns == {"Transaction Date", "Description", "Amount"}

\* the statements of the model and copies of them that lack required columns
IncompleteStatements ==
    {f \in Statements \cup {[g EXCEPT !.cols = @ \ C] :
                                g \in Statements, C \in SUBSET RequiredColumns} :
        ~(RequiredColumns \subseteq f.cols)}

\* C15: importing a statement that lacks a required column fails with an
\* error before any row is produced, and the failed import leaves the
\* ledger, the Preference Map and the locks unchanged.
C15_MissingColumnFails ==
    /\ [](\A f \in IncompleteStatements, al \in BOOLEAN :
            LET r == ImportPage(ledger, Locked, load_prefs, f, "Chase", TRUE, al, "t1")
            IN  /\ r.error
                /\ r.df_new = <<>> /\ r.given = <<>>
                /\ r.inserted = 0 /\ r.skipped = 0
                /\ r.ledger = ledger)
    /\ [][\A f \in IncompleteStatements, al \in BOOLEAN :
            ImportCSV(f, "Chase", TRUE, al, "t1") => UNCHANGED vars]_vars

\* the ledger has rows, a month is locked and the map has an entry when a
\* statement without its Amount column is imported
C15_Witness ==
    /\ ledger # <<>> /\ locked_months # {} /\ load_prefs # EmptyMap
    /\ StmtNoAmount \in IncompleteStatements
    /\ ImportPage(ledger, Locked, load_prefs, StmtNoAmount, "Chase", TRUE, FALSE, "t1").error
    /\ ImportPage(ledger, Locked, load_prefs,
                  [StmtNoAmount EXCEPT !.cols = AllCols], "Chase", TRUE, FALSE, "t1").df_new # <<>>

(***************************************************************************)
(* Row-level skips of import_chase_csv.                                    *)
(***************************************************************************)
\* the line has a date and an amount that parse and a description that is
\* neither missing nor empty
ValidLine(r) ==
    /\ parse_date(r.txn) # NoDate
    /\ parse_amount(r.amt).ok
    /\ ~r.desc.nan /\ Strip(r.desc.text) # <<>>

ValidLines(f) == SelectSeq(f.rows, ValidLine)

\* C16 as stated: import_chase_csv drops every line whose date or amount does
\* not parse or whose description is missing or empty, and its output is
\* exactly the other lines, in input order.
C16_Original ==
    \A f \in LineFiles, rc \in BOOLEAN :
        LET out == ImportPage(ledger, Locked, load_prefs, f, "Chase", rc, FALSE, "t1").df_new
            valid == ValidLines(f)
        IN  /\ Len(out) = Len(valid)
            /\ \A k \in 1..Len(valid) :
                  /\ out[k].txn_date = parse_date(valid[k].txn)
                  /\ out[k].amount = parse_amount(valid[k].amt).v
                  /\ out[k].description = Strip(valid[k].desc.text)

(***************************************************************************)
(* update_txn_by_id.                                                       *)
(***************************************************************************)
\* updates with allowed keys, with other keys, and with both
Updates ==
    {[category |-> "Rent"],
     [txn_date |-> Jan23, amount |-> -1000, excluded |-> 1],
     [id |-> 9],
     [id |-> 9, txn_date |-> Jan23],
     [external_id |-> <<"x">>, created_at |-> "t9"],
     [locked |-> TRUE, notes |-> "n", kind |-> "income"]}

\* C17: update_txn_by_id sets, in the row of the given id, the columns of the
\* update that are in the allowed set to the update's values and nothing
\* else: other keys are ignored, an update with no allowed key changes
\* nothing, and id, external_id, created_at and every other row stay as
\* they were.
C17_UpdateAllowedOnly ==
    \A txn_id \in 1..(Len(ledger) + 1), u \in Updates :
        LET L2 == update_txn_by_id(ledger, txn_id, u)
        IN  /\ Len(L2) = Len(ledger)
            /\ DOMAIN u \cap allowed = {} => L2 = ledger
            /\ \A i \in 1..Len(ledger) :
                  /\ ledger[i].id # txn_id => L2[i] = ledger[i]
                  /\ DOMAIN L2[i] = DOMAIN ledger[i]
                  /\ \A f \in DOMAIN ledger[i] :
                        L2[i][f] = IF ledger[i].id = txn_id /\ f \in DOMAIN u /\ f \in allowed
                                   THEN u[f] ELSE ledger[i][f]
                  /\ L2[i].id = ledger[i].id
                  /\ L2[i].external_id = ledger[i].external_id
                  /\ L2[i].created_at = ledger[i].created_at

\* of two rows, an update that names id and txn_date moves the date of one
\* and leaves its id and the other row
C17_Witness ==
    /\ Len(ledger) >= 2
    /\ LET L2 == update_txn_by_id(ledger, 1, [id |-> 9, txn_date |-> Jan23])
       IN  /\ ledger[1].txn_date # Jan23 /\ L2[1].txn_date = Jan23
           /\ L2[1].id = 1 /\ L2[2] = ledger[2]
    /\ update_txn_by_id(ledger, 1, [id |-> 9]) = ledger

(***************************************************************************)
(* The month locks of a year.                                              *)
(***************************************************************************)
LockYears == Years \cup {2025}
MonthSets == SUBSET {1, 2, 12}

\* C18: save_locked_months(year, M) replaces the lock set of that year:
\* afterwards get_locked_months(year) is exactly M, and the locked months of
\* every other year are as before.
C18_SaveLocksReplaces ==
    \A y \in LockYears, M \in MonthSets :
        LET tbl == save_locked_months(locked_months, y, M)
        IN  /\ get_locked_months(tbl, y) = M
            /\ \A o \in LockYears \ {y} :
                  get_locked_months(tbl, o) = get_locked_months(locked_months, o)
            /\ {x[1] : x \in tbl} \subseteq {x[1] : x \in locked_months} \cup {y}

\* two years have a locked January; saving {February} for one of them unlocks
\* its January and leaves the other year's
C18_Witness ==
    /\ get_locked_months(locked_months, 2023) = {1}
    /\ get_locked_months(locked_months, 2024) = {1}
    /\ get_locked_months(save_locked_months(locked_months, 2024, {2}), 2024) = {2}
    /\ get_locked_months(save_locked_months(locked_months, 2024, {2}), 2023) = {1}

(***************************************************************************)
(* fetch_year.                                                             *)
(***************************************************************************)
\* C19: fetch_year(year) returns exactly the ledger rows whose transaction
\* date falls in the year, each once, ordered by transaction date and, among
\* equal dates, by row id.
C19_FetchYearOrdered ==
    \A y \in LockYears :
        LET d == fetch_year(ledger, y)
            rows == {i \in 1..Len(ledger) : YearOf(ledger[i].txn_date) = y}
        IN  /\ SeqToSet(d) = {ledger[i] : i \in rows}
            /\ Len(d) = Cardinality(rows)
            /\ \A k \in 1..(Len(d) - 1) :
                  \/ DateLess(d[k].txn_date, d[k + 1].txn_date)
                  \/ d[k].txn_date = d[k + 1].txn_date /\ d[k].id < d[k + 1].id

\* the later-dated row of a year was inserted first and comes back second
C19_Witness ==
    /\ Len(ledger) >= 2
    /\ YearOf(ledger[1].txn_date) = YearOf(ledger[2].txn_date)
    /\ DateLess(ledger[2].txn_date, ledger[1].txn_date)
    /\ fetch_year(ledger, YearOf(ledger[1].txn_date)) = <<ledger[2], ledger[1]>>

(***************************************************************************)
(* C20  Aggregation determinism.                                           *)
(***************************************************************************)
Perms(n) == {p \in [1..n -> 1..n] : \A i, j \in 1..n : p[i] = p[j] => i = j}

\* the rows of df listed in the order p
Permute(df, p) == [i \in 1..Len(df) |-> df[p[i]]]

\* the rows whose amounts are added into the same cell of a pivot
SameGroup(a, b) ==
    /\ a.kind = b.kind
    /\ a.category = b.category
    /\ month_of(a.txn_date) = month_of(b.txn_date)

\* p lists the rows of every group in the order df lists them
KeepsGroupOrder(df, p) ==
    \A i, j \in 1..Len(df) :
        i < j /\ SameGroup(df[p[i]], df[p[j]]) => p[i] < p[j]

Sheet(df) == compute_summary(df, expense_cats, income_cats)

\* C20 as stated: for the transactions of the selected year and the
\* category lists, compute_summary returns the same expense, income and
\* savings tables and the same YTD savings rate in whatever order the
\* transactions are listed.
C20_Original ==
    LET df == fetch_year(ledger, year)
    IN  \A p \in Perms(Len(df)) : Sheet(Permute(df, p)) = Sheet(df)

\* C20 (amended): for the transactions of the selected year and the
\* category lists, compute_summary returns the same expense, income and
\* savings tables and the same YTD savings rate for every listing of the
\* transactions that keeps the transactions of the same kind, category and
\* month in the same relative order.
C20_SummaryDeterminism ==
    LET df == fetch_year(ledger, year)
    IN  \A p \in Perms(Len(df)) :
            KeepsGroupOrder(df, p) => Sheet(Permute(df, p)) = Sheet(df)

\* three counted transactions of two categories, of which the large one is
\* listed between the two small ones of the other category
C20_Witness ==
    LET df == fetch_year(ledger, year)
    IN  /\ Len(df) = 3
        /\ \A i \in 1..3 : df[i].kind = "expense" /\ df[i].excluded = 0
        /\ df[1].category = "Rent" /\ df[3].category = "Rent"
        /\ df[2].category = "Groceries"
        /\ df[2].amount = -33554432
        /\ \E p \in Perms(3) : p # <<1, 2, 3>> /\ KeepsGroupOrder(df, p)

(***************************************************************************)
(* C21  The rows of the expense and income tables.                         *)
(***************************************************************************)
\* the table has one row for each entry of cats, in the order of cats, then
\* the row named total; a row whose category has no transaction of the kind
\* holds zero in the twelve months
RowsFollow(table, cats, total, df, kind) ==
    /\ Len(table) = Len(cats) + 1
    /\ table[Len(table)].label = total
    /\ \A i \in 1..Len(cats) :
          /\ table[i].label = cats[i]
          /\ (\A k \in 1..Len(df) : ~(df[k].kind = kind /\ df[k].category = cats[i]))
                => \A m \in 1..12 : table[i].months[m] = 0

\* C21: the expense table of compute_summary has exactly one row for each
\* entry of the category list it is given, in the order of that list, followed
\* by the totals row, and a listed category with no transactions has zero in
\* all twelve month columns; the same holds of the income table.
C21_TableRows ==
    LET df == fetch_year(ledger, year)
        t == Sheet(df)
    IN  /\ RowsFollow(t.exp_table, expense_cats, "Total Spent", df, "expense")
        /\ RowsFollow(t.inc_table, income_cats, "Total Net Income", df, "income")

\* the list is not in alphabetical order and names a category twice; one
\* listed category has an expense and another has none
C21_Witness ==
    LET df == fetch_year(ledger, year)
    IN  /\ expense_cats = <<"Groceries", "Rent", "Rent">>
        /\ \E k \in 1..Len(df) : df[k].kind = "expense" /\ df[k].category = "Groceries"
                                   /\ df[k].excluded = 0
        /\ \A k \in 1..Len(df) : df[k].category # "Rent"
        /\ Sheet(df).exp_table[1].months[1] = 50000

(***************************************************************************)
(* C22  The cells and the totals of the expense and income tables.         *)
(* A sum is the floating-point sum of the values in the order given.       *)
(***************************************************************************)
\* spend = -amount for an expense, the amount for an income
Counts(r) == IF r.kind = "expense" THEN -r.amount ELSE r.amount

\* what the non-excluded rows of the kind, category and month count, as listed
CellValues(df, kind, category, month) ==
    LET InCell(r) == /\ r.kind = kind
                     /\ r.excluded = 0
                     /\ r.category = category
                     /\ month_of(r.txn_date) = month
        rows == SelectSeq(df, InCell)
    IN  [k \in 1..Len(rows) |-> Counts(rows[k])]

\* the rows of df whose category is listed, or that are not of the kind
Listed(df, kind, cats) ==
    LET Keep(r) == r.kind # kind \/ r.category \in SeqToSet(cats)
    IN  SelectSeq(df, Keep)

CellsAndTotals(table, cats, df, kind) ==
    LET n == Len(cats)
    IN  /\ \A i \in 1..n, m \in 1..12 :
              table[i].months[m] = group_sum(CellValues(df, kind, cats[i], m))
        /\ \A m \in 1..12 :
              table[n + 1].months[m] = np_sum([i \in 1..n |-> table[i].months[m]], n)
        /\ table[n + 1].ytd = np_sum([i \in 1..n |-> table[i].ytd], n)

\* C22: in the expense and income tables of compute_summary the totals row
\* equals, for each month column and for the YTD column, the sum of the
\* category rows; each category cell is the sum over the non-excluded rows of
\* that kind, category and month of spend = -amount (expenses) or amount
\* (income); transactions whose category is not in the list given contribute
\* to no cell and to no total: the tables are those of the listed ones alone.
C22_CellsAndTotals ==
    LET df == fetch_year(ledger, year)
        t == Sheet(df)
    IN  /\ CellsAndTotals(t.exp_table, expense_cats, df, "expense")
        /\ CellsAndTotals(t.inc_table, income_cats, df, "income")
        /\ Sheet(Listed(df, "expense", expense_cats)).exp_table = t.exp_table
        /\ Sheet(Listed(df, "income", income_cats)).inc_table = t.inc_table

\* a listed expense, a non-excluded expense of a category that is not
\* listed and one without category: the total is that of the listed one
C22_Witness ==
    LET df == fetch_year(ledger, year)
    IN  /\ expense_cats = <<"Groceries">>
        /\ \E k \in 1..Len(df) : df[k].kind = "expense" /\ df[k].category = "Rent"
                                   /\ df[k].excluded = 0
        /\ \E k \in 1..Len(df) : df[k].kind = "expense" /\ df[k].category = NULL
                                   /\ df[k].excluded = 0
        /\ Sheet(df).exp_table[2].ytd = 50000

(***************************************************************************)
(* C23  Savings arithmetic.                                                *)
(***************************************************************************)
\* the rows "Total Saved", "Savings Rate", "Total Spent" and "Total Net
\* Income" of the tables t
SavedRow(t) == t.savings_table[1]
RateRow(t) == t.savings_table[2]
SpentRow(t) == t.exp_table[Len(t.exp_table)]
IncomeRow(t) == t.inc_table[Len(t.inc_table)]

\* saved = income - spend in every month and over the year
SavedIsDifference(t) ==
    /\ \A m \in 1..12 :
          SavedRow(t).months[m] = FSub(IncomeRow(t).months[m], SpentRow(t).months[m])
    /\ SavedRow(t).ytd = FSub(IncomeRow(t).ytd, SpentRow(t).ytd)

\* YTD saved is the sum of the twelve monthly saved values
SavedIsSumOfMonths(t) == SavedRow(t).ytd = np_sum(SavedRow(t).months, 12)

\* the rates are saved / income when income > 0 and 0 otherwise
RatesByPositiveIncome(t) ==
    /\ \A m \in 1..12 :
          RateRow(t).months[m] = RateIfPositive(SavedRow(t).months[m], IncomeRow(t).months[m])
    /\ RateRow(t).ytd = RateIfPositive(SavedRow(t).ytd, IncomeRow(t).ytd)
    /\ t.savings_rate_ytd = RateRow(t).ytd

\* C23 as stated: for every month saved = income - spend; YTD saved = total
\* income - total spend = the sum of the twelve monthly saved values; the
\* savings rate (per month and YTD) is saved / income when income > 0 and 0
\* otherwise.
C23_Original ==
    LET t == Sheet(fetch_year(ledger, year))
    IN  SavedIsDifference(t) /\ SavedIsSumOfMonths(t) /\ RatesByPositiveIncome(t)

\* the rates are saved / income when income is not 0, and 0 when it is 0
RatesByNonZeroIncome(t) ==
    LET RateNonZero(saved, income) ==
            IF income = 0 THEN TrueDiv(0, 1) ELSE TrueDiv(saved, income)
    IN  /\ \A m \in 1..12 :
              RateRow(t).months[m] =
                  RateNonZero(SavedRow(t).months[m], IncomeRow(t).months[m])
        /\ RateRow(t).ytd = RateNonZero(SavedRow(t).ytd, IncomeRow(t).ytd)
        /\ t.savings_rate_ytd = RateRow(t).ytd

RECURSIVE SumAbs(_, _)
\* the sum of the magnitudes of the amounts of the first k rows of df
SumAbs(df, k) == IF k = 0 THEN 0 ELSE SumAbs(df, k - 1) + Abs(df[k].amount)

\* no sum of amounts of df is rounded
ExactSums(df) == SumAbs(df, Len(df)) < Pow2[FloatBits]

\* C23 (amended): for every month saved = income - spend; YTD saved = total
\* income - total spend, and it is the sum of the twelve monthly saved values
\* when no sum of amounts is rounded; the savings rate (per month and YTD) is
\* saved / income when income is not 0, also when it is negative, and 0 when
\* income is 0.
C23_SavingsArithmetic ==
    LET df == fetch_year(ledger, year)
        t == Sheet(df)
    IN  /\ SavedIsDifference(t)
        /\ ExactSums(df) => SavedIsSumOfMonths(t)
        /\ RatesByNonZeroIncome(t)

\* the income of a month is negative and its rate is not 0, no sum is
\* rounded, and the income of another month is 0
C23_Witness ==
    LET df == fetch_year(ledger, year)
        t == Sheet(df)
    IN  /\ ExactSums(df)
        /\ IncomeRow(t).months[1] < 0
        /\ RateRow(t).months[1] # TrueDiv(0, 1)
        /\ SpentRow(t).months[1] > 0
        /\ IncomeRow(t).months[2] = 0 /\ SpentRow(t).months[2] > 0

(***************************************************************************)
(* C24  Excluded transactions.                                             *)
(***************************************************************************)
\* df without its row k
Without(df, k) == SelectSeq2(df, (1..Len(df)) \ {k}, 1)

\* C24: a transaction with excluded = 1 is stored but left out of the
\* totals: the expense, income and savings tables and the YTD savings rate
\* of compute_summary are the same with and without it.
C24_ExcludedOmitted ==
    LET df == fetch_year(ledger, year)
        t == Sheet(df)
    IN  \A k \in 1..Len(df) : df[k].excluded = 1 => Sheet(Without(df, k)) = t

\* an excluded expense is stored next to a counted expense of its category
\* and month
C24_Witness ==
    LET df == fetch_year(ledger, year)
    IN  \E k, j \in 1..Len(df) :
            /\ df[k].excluded = 1 /\ df[j].excluded = 0
            /\ df[k].kind = "expense" /\ df[j].kind = "expense"
            /\ df[k].category = "Rent" /\ df[j].category = "Rent"
            /\ month_of(df[k].txn_date) = month_of(df[j].txn_date)
            /\ df[k].amount # 0
            /\ "Rent" \in SeqToSet(expense_cats)

(***************************************************************************)
(* C25  The worked example.  Amounts are in mills: 50 is 50000.            *)
(***************************************************************************)
\* date, amount, kind, category of the three transactions
ExampleRows ==
    {<<Jan24, -50000, "expense", "Groceries">>, <<Feb24, -1000000, "expense", "Rent">>,
     <<Jan01, 3000000, "income", "Salary">>}

\* df lists the three transactions of the example, none excluded
IsExample(df) ==
    /\ Len(df) = 3
    /\ {<<df[k].txn_date, df[k].amount, df[k].kind, df[k].category>> : k \in 1..3}
          = ExampleRows
    /\ \A k \in 1..3 : df[k].excluded = 0

\* C25: for the expense categories [Groceries, Rent] and the transactions
\* (2024-01-05, -50, expense, Groceries), (2024-02-10, -1000, expense, Rent),
\* (2024-01-01, 3000, income, Salary), compute_summary yields the expense YTD
\* totals Groceries = 50, Rent = 1000, Total = 1050, the income YTD Salary =
\* 3000, YTD savings = 1950 and the savings rate 0.65 = 13/20.
C25_WorkedExample ==
    LET df == fetch_year(ledger, year)
        t == Sheet(df)
    IN  IsExample(df) /\ expense_cats = <<"Groceries", "Rent">>
            /\ income_cats = <<"Salary">> =>
          /\ t.exp_table[1].label = "Groceries" /\ t.exp_table[1].ytd = 50000
          /\ t.exp_table[2].label = "Rent" /\ t.exp_table[2].ytd = 1000000
          /\ t.exp_table[3].label = "Total Spent" /\ t.exp_table[3].ytd = 1050000
          /\ t.inc_table[1].label = "Salary" /\ t.inc_table[1].ytd = 3000000
          /\ t.savings_table[1].ytd = 1950000
          /\ t.savings_rate_ytd = <<13, 20>>

\* the ledger of the selected year is the example
C25_Witness ==
    /\ IsExample(fetch_year(ledger, year))
    /\ expense_cats = <<"Groceries", "Rent">>
    /\ income_cats = <<"Salary">>
    /\ Sheet(fetch_year(ledger, year)).savings_rate_ytd = <<13, 20>>

(***************************************************************************)
(* C30  Spend conservation in Sheet View with the Uncategorized row.       *)
(***************************************************************************)
\* the label of the row that is to count the expense r
RowOf(r, cats) ==
    IF r.category \in SeqToSet(cats) THEN r.category ELSE "Uncategorized"

\* C30 as stated: in the expense table of Sheet View with the Uncategorized
\* row shown, every non-excluded expense of the year is counted in exactly
\* one row above the totals row, the row of its category when the category is
\* listed and the Uncategorized row when it is empty or not listed, and the
\* row Total Spent is the sum of all rows above it.
C30_Original ==
    LET df == fetch_year(ledger, year)
        table == sheet_view(df, expense_cats, income_cats, FALSE, TRUE)
        n == Len(table) - 1
        spent == Counted(df, "expense")
        SpendOf(label, m) ==
            LET Here(r) == RowOf(r, expense_cats) = label /\ month_of(r.txn_date) = m
                g == SelectSeq(spent, Here)
            IN  group_sum([k \in 1..Len(g) |-> -g[k].amount])
    IN  /\ \A k \in 1..Len(spent) :
              Cardinality({i \in 1..n : table[i].label = RowOf(spent[k], expense_cats)}) = 1
        /\ \A i \in 1..n, m \in 1..12 : table[i].months[m] = SpendOf(table[i].label, m)
        /\ \A m \in 1..12 :
              table[n + 1].months[m] = np_sum([i \in 1..n |-> table[i].months[m]], n)
        /\ table[n + 1].ytd = np_sum([i \in 1..n |-> table[i].ytd], n)

(***************************************************************************)
(* C27  Admin edits and locked months.                                     *)
(***************************************************************************)
\* C27 as stated: after Save edits of the admin ledger, every transaction
\* whose transaction date was changed has a new (year, month) that is not
\* locked.
C27_Original ==
    \A E \in EditedRows(ledger, year), cv \in EditChoices :
        LET L2 == AdminSave(ledger, Locked, year, E, cv).ledger
        IN  \A i \in 1..Len(ledger) :
                L2[i].txn_date # ledger[i].txn_date => YM(L2[i].txn_date) \notin locked_months

(***************************************************************************)
(* C29  Manual submissions reported as added.                              *)
(***************************************************************************)
\* C29 as stated: a manual expense or manual income submission that passes
\* validation (description not empty, month not locked), and so is reported
\* as added, makes the ledger one row longer, also when the ledger already
\* holds an identical transaction.
C29_Original ==
    /\ \A d \in Dates, desc \in ManualDescriptions, t \in Times :
          LET r == ManualExpenseForm(ledger, Locked, d, desc, 50000, "Chase", "", FALSE,
                                     "", t)
          IN  r.refused = "" => Len(r.ledger) = Len(ledger) + 1
    /\ \A desc \in IncomeDescriptions, t \in Times :
          LET r == ManualIncomeForm(ledger, Locked, Jan24, desc, 3000000, "Other", "", "", t)
          IN  r.refused = "" => Len(r.ledger) = Len(ledger) + 1

(***************************************************************************)
(* C28  Wizard progress.                                                   *)
(***************************************************************************)
\* row i of the ledger is an uncategorized, non-excluded expense of the
\* selected year, dated in a month that is not locked
Waiting(i) ==
    /\ i <= Len(ledger)
    /\ YearOf(ledger[i].txn_date) = year
    /\ NeedsCategory(ledger[i])
    /\ month_of(ledger[i].txn_date) \notin Locked

\* Save & Next leaves fewer uncategorized, non-excluded expenses
FewerNeeds ==
    SaveAndNext => Len(Needs(ledger', year')) < Len(Needs(ledger, year))

\* C28 as stated: when Save & Next is pressed again and again with a category
\* chosen, every uncategorized, non-excluded expense of the selected year
\* dated in an unlocked month is eventually categorized (unless its month is
\* locked or another year selected first), and each Save & Next strictly
\* decreases the number of uncategorized, non-excluded expenses.
C28_Original ==
    /\ \A i \in 1..MaxRows : Waiting(i) ~> ~Waiting(i)
    /\ [][FewerNeeds]_vars

(***************************************************************************)
(* C26  Concurrent duplicate import.                                       *)
(***************************************************************************)
Finished(c) == c.pc \in {"done", "failed"}

\* no row of the frame was in the ledger before the sessions imported: what
\* the ledger holds of it was written at the time of a session
NewToLedger(df) ==
    \A j \in 1..Len(ledger) :
        ledger[j].external_id \in ExternalIds(df) => ledger[j].created_at \in SessionTimes

Occurrences(L, r) == Cardinality({j \in 1..Len(L) : L[j].external_id = r.external_id})

====
